---- MODULE Spec2Model ----
(***************************************************************************)
(* Model of the prompt pipeline of the roleplay client:                    *)
(*   - the tokenizer's context truncation (core/tokenizer),                *)
(*   - the chat manager's message log over the SQLite store                *)
(*     (core/chat/manager + storage/database),                             *)
(*   - the world-info matcher and scan (core/worldinfo/matcher),           *)
(*   - the prompt builder (core/prompt/builder),                           *)
(*   - the character card parser (core/character/parser),                  *)
(*   - the PNG embedding of character cards (core/character/png-embed),    *)
(*   - two interleaved addMessage calls on one session,                    *)
(*   - the world-info manager's entry reordering (core/worldinfo/manager). *)
(* Each part has its own specification; the variables of the other parts   *)
(* stay at their idle value.                                               *)
(***************************************************************************)
EXTENDS Integers, Sequences, FiniteSets, TLC

VARIABLES
    tIn,      \* truncation: the messages argument
    tMax,     \* truncation: the maxTokens argument
    tOut,     \* truncation: the value returned by the last call, or NoResult
    store,    \* chat: the chat_sessions table, session id -> stored row
    nextId,   \* chat: number of ids generateId has handed out
    wText,    \* world info: the text argument
    wEntry,   \* world info: the entry argument
    wOut,     \* world info: the value returned by the last call, or NoResult
    sMsgs,    \* scan: the messages argument
    sEntries, \* scan: the entries argument
    sDepth,   \* scan: the scanDepth argument
    sOut,     \* scan: the value returned by the last call, or NoResult
    pCtx,     \* prompt: the context argument
    pOut,     \* prompt: the value returned by the last call, or NoResult
    cIn,      \* card: the JSON value handed to the parser
    cOut,     \* card: the outcome of the last call, or NoResult
    gPng,     \* png: the bytes of the image, or NoResult
    gOut,     \* png: the outcome of the last call, or NoResult
    kIn,      \* chunk walk: the base64 text handed to extractCharacterFromPng
    kBytes,   \* chunk walk: the decoded bytes, or NoResult before decoding
    kOffset,  \* chunk walk: the cursor of the while loop
    kOut,     \* chunk walk: the outcome of the call, or NoResult
    rPc,      \* race: each addMessage call's position
    rSession, \* race: each addMessage call's loaded copy of the session
    bBook,    \* book: the stored world-info book
    bOut      \* book: the outcome of the last call, or NoResult

vars == <<tIn, tMax, tOut, store, nextId, wText, wEntry, wOut,
          sMsgs, sEntries, sDepth, sOut, pCtx, pOut, cIn, cOut,
          gPng, gOut, kIn, kBytes, kOffset, kOut, rPc, rSession, bBook, bOut>>

truncVars == <<tIn, tMax, tOut>>
chatVars  == <<store, nextId>>
wiVars    == <<wText, wEntry, wOut>>
scanVars  == <<sMsgs, sEntries, sDepth, sOut>>
promptVars == <<pCtx, pOut>>
cardVars  == <<cIn, cOut>>
pngVars   == <<gPng, gOut>>
walkVars  == <<kIn, kBytes, kOffset, kOut>>
raceVars  == <<rPc, rSession>>
bookVars  == <<bBook, bOut>>

NoResult == [kind |-> "none"]

Roles == {"user", "assistant", "system"}

Min(a, b) == IF a <= b THEN a ELSE b
Max(a, b) == IF a >= b THEN a ELSE b

(***************************************************************************)
(* Tokenizer: token estimation and truncation.                             *)
(***************************************************************************)

\* Bounds of the truncation inputs.
MaxTruncMsgs == 3
MaxContentTokens == 2
MaxBudget == 20

CharsPerToken == 4
MessageOverhead == 4
BaseOverhead == 3

\* A text of n characters.
RECURSIVE Rep(_)
Rep(n) == IF n = 0 THEN <<>> ELSE <<"x">> \o Rep(n - 1)

\* Content lengths: the empty text, and for each token count k one length
\* that is not a multiple of CharsPerToken (so the rounding up matters).
ContentLens == {0} \cup {CharsPerToken * (k - 1) + 1 : k \in 1..MaxContentTokens}

\* Math.ceil(text.length / 4)
estimateTokens(text) == (Len(text) + CharsPerToken - 1) \div CharsPerToken

countTokens(text) == estimateTokens(text)

RECURSIVE SumTokens(_)
SumTokens(messages) ==
    IF messages = <<>> THEN 0
    ELSE MessageOverhead + countTokens(Head(messages).content)
         + SumTokens(Tail(messages))

countMessagesTokens(messages) == SumTokens(messages) + BaseOverhead

\* messages.map(msg => ({message: msg, tokens: countTokens(content) + 4}))
messageTokens(messages) ==
    [i \in DOMAIN messages |->
        [message |-> messages[i],
         tokens  |-> countTokens(messages[i].content) + MessageOverhead]]

\* The test of the loop body: does the message fit the budget?
FitsNoCost(totalTokens, tokens, maxTokens) == totalTokens <= maxTokens
Fits(totalTokens, tokens, maxTokens) == totalTokens + tokens <= maxTokens

\* for (i = length - 1; i >= 0; i--): acc is the loop's state after the
\* iterations i+1 .. length (1-based here).
RECURSIVE TruncLoop(_, _, _, _)
TruncLoop(mt, i, maxTokens, acc) ==
    IF i = 0 THEN acc
    ELSE IF Fits(acc.totalTokens, mt[i].tokens, maxTokens)
         THEN TruncLoop(mt, i - 1, maxTokens,
                  [result       |-> <<mt[i].message>> \o acc.result,
                   totalTokens  |-> acc.totalTokens + mt[i].tokens,
                   removedCount |-> acc.removedCount])
         ELSE TruncLoop(mt, i - 1, maxTokens,
                  [result       |-> acc.result,
                   totalTokens  |-> acc.totalTokens,
                   removedCount |-> acc.removedCount + 1])

truncateMessages(messages, maxTokens) ==
    IF Len(messages) = 0
    THEN [messages |-> <<>>, truncated |-> FALSE, removedCount |-> 0]
    ELSE LET acc == TruncLoop(messageTokens(messages), Len(messages), maxTokens,
                        [result |-> <<>>, totalTokens |-> BaseOverhead,
                         removedCount |-> 0])
         IN [messages     |-> acc.result,
             truncated    |-> acc.removedCount > 0,
             removedCount |-> acc.removedCount]

IsSystem(m) == m.role = "system"
IsChat(m) == m.role # "system"

\* let systemTokens = 3; for (msg of systemMessages) systemTokens += ...
systemTokensOf(systemMessages) == BaseOverhead + SumTokens(systemMessages)

\* The second loop: like the first, without a removed counter.
RECURSIVE KeepLoop(_, _, _, _)
KeepLoop(ct, i, chatBudget, acc) ==
    IF i = 0 THEN acc
    ELSE IF Fits(acc.usedTokens, ct[i].tokens, chatBudget)
         THEN KeepLoop(ct, i - 1, chatBudget,
                  [keptChat   |-> <<ct[i].message>> \o acc.keptChat,
                   usedTokens |-> acc.usedTokens + ct[i].tokens])
         ELSE KeepLoop(ct, i - 1, chatBudget, acc)

\* const result = [...systemMessages, ...keptChat]
CombineChatFirst(systemMessages, keptChat) == keptChat \o systemMessages
Combine(systemMessages, keptChat) == systemMessages \o keptChat

truncateMessagesPreserveSystem(messages, maxTokens) ==
    LET systemMessages == SelectSeq(messages, IsSystem)
        chatMessages   == SelectSeq(messages, IsChat)
        chatBudget     == maxTokens - systemTokensOf(systemMessages)
    IN IF chatBudget <= 0
       THEN [messages  |-> systemMessages,
             truncated |-> Len(chatMessages) > 0]
       ELSE LET acc == KeepLoop(messageTokens(chatMessages), Len(chatMessages),
                           chatBudget, [keptChat |-> <<>>, usedTokens |-> 0])
            IN [messages  |-> Combine(systemMessages, acc.keptChat),
                truncated |-> Len(acc.keptChat) < Len(chatMessages)]

\* The message lists of the truncation inputs; id is the message's
\* position in the input (its identity).
TruncMsgLists ==
    UNION {[1..n -> Roles \X ContentLens] : n \in 0..MaxTruncMsgs}

MakeMsgs(f) ==
    [i \in DOMAIN f |-> [id |-> i, role |-> f[i][1], content |-> Rep(f[i][2])]]

TruncIdle == tIn = <<>> /\ tMax = 0 /\ tOut = NoResult

TruncInit ==
    /\ \E f \in TruncMsgLists : tIn = MakeMsgs(f)
    /\ tMax \in 0..MaxBudget
    /\ tOut = NoResult

CallTruncateMessages ==
    /\ tOut = NoResult
    /\ tOut' = [kind |-> "truncateMessages"] @@ truncateMessages(tIn, tMax)
    /\ UNCHANGED <<tIn, tMax, chatVars, wiVars, scanVars, promptVars, cardVars,
                 pngVars, walkVars, raceVars, bookVars>>

CallTruncateMessagesPreserveSystem ==
    /\ tOut = NoResult
    /\ tOut' = [kind |-> "truncateMessagesPreserveSystem"]
                 @@ truncateMessagesPreserveSystem(tIn, tMax)
    /\ UNCHANGED <<tIn, tMax, chatVars, wiVars, scanVars, promptVars, cardVars,
                 pngVars, walkVars, raceVars, bookVars>>

(***************************************************************************)
(* Chat manager over the chat_sessions table.                              *)
(*                                                                         *)
(* A row holds the session as JSON text, so a stored session is a value:   *)
(* every call parses a fresh copy, changes it and writes it back.  Wall    *)
(* clock fields (timestamp, createdAt, updatedAt) are read by no operation *)
(* and are left out, as is the characters table that createChatSession     *)
(* touches through incrementChatCount.                                     *)
(***************************************************************************)

\* Bounds of the chat model.
MaxIds == 6
MaxSessions == 2
MaxMsgs == 3
MaxSwipes == 2
MaxSwiped == 2
FarIndex == 1000

\* The texts the callers pass: a greeting, a message, an edit, a swipe.
Greetings == {"g"}
AddContents == {"a"}
EditContents == {"e"}
SwipeContents == {"s"}
ChatRoles == {"user"}
CharacterId == "c1"

\* An id that generateId never returns: stands for any absent id.
AbsentId == 0

ErrNone == "none"
ErrSession == "Chat session not found"
ErrMessage == "Message not found"
ErrNoSwipes == "Message has no swipes"

\* The record m with field k set to v (m.k = v in the source), whether or
\* not m had the field.
SetField(m, k, v) ==
    [x \in DOMAIN m \cup {k} |-> IF x = k THEN v ELSE m[x]]

HasSwipes(m) == "swipes" \in DOMAIN m

\* saveChatSession: INSERT OR REPLACE of the row keyed by session.id.
saveEveryRow(rows, session) ==
    [id \in DOMAIN rows \cup {session.id} |->
        [character_id |-> session.characterId,
         messages     |-> session.messages,
         metadata     |-> session.metadata]]
saveChatSession(rows, session) ==
    [id \in DOMAIN rows \cup {session.id} |->
        IF id = session.id
        THEN [character_id |-> session.characterId,
              messages     |-> session.messages,
              metadata     |-> session.metadata]
        ELSE rows[id]]

\* getChatSession: the row parsed into a session object; null is the
\* session with id AbsentId.
NullSession == [id |-> AbsentId]
getChatSession(rows, id) ==
    IF id \notin DOMAIN rows THEN NullSession
    ELSE [id          |-> id,
          characterId |-> rows[id].character_id,
          messages    |-> rows[id].messages,
          metadata    |-> rows[id].metadata]

\* messages.findIndex(m => m.id === messageId), 1-based; 0 for -1.
findIndexOrLast(messages, messageId) ==
    IF \E i \in DOMAIN messages : messages[i].id = messageId
    THEN CHOOSE i \in DOMAIN messages :
            /\ messages[i].id = messageId
            /\ \A j \in 1..(i - 1) : messages[j].id # messageId
    ELSE Len(messages)
findIndex(messages, messageId) ==
    IF \E i \in DOMAIN messages : messages[i].id = messageId
    THEN CHOOSE i \in DOMAIN messages :
            /\ messages[i].id = messageId
            /\ \A j \in 1..(i - 1) : messages[j].id # messageId
    ELSE 0

\* messages.splice(messageIndex, 1)
spliceSwap(messages, i) ==
    [j \in 1..(Len(messages) - 1) |->
        IF j = i THEN messages[Len(messages)] ELSE messages[j]]
splice(messages, i) ==
    [j \in 1..(Len(messages) - 1) |->
        IF j < i THEN messages[j] ELSE messages[j + 1]]

\* updateMessage's two assignments.
editedMessage(message, newContent) ==
    SetField(SetField(message, "content", newContent), "isEdited", TRUE)

\* addSwipe's changes to the message; swipeIndex is 0-based as in the
\* source, swipes a 1-based sequence.
swipeAddedWithoutOriginal(message, content) ==
    LET init == IF ~HasSwipes(message)
                THEN SetField(SetField(message, "swipes", <<>>),
                         "swipeIndex", 0)
                ELSE message
        swipes == Append(init.swipes, content)
    IN SetField(SetField(SetField(init, "swipes", swipes),
                    "swipeIndex", Len(swipes) - 1), "content", content)
swipeAddedOffByOne(message, content) ==
    LET init == IF ~HasSwipes(message)
                THEN SetField(SetField(message, "swipes", <<message.content>>),
                         "swipeIndex", 0)
                ELSE message
        swipes == Append(init.swipes, content)
    IN SetField(SetField(SetField(init, "swipes", swipes),
                    "swipeIndex", Len(swipes)), "content", content)
swipeAdded(message, content) ==
    LET init == IF ~HasSwipes(message)
                THEN SetField(SetField(message, "swipes", <<message.content>>),
                         "swipeIndex", 0)
                ELSE message
        swipes == Append(init.swipes, content)
    IN SetField(SetField(SetField(init, "swipes", swipes),
                    "swipeIndex", Len(swipes) - 1), "content", content)

\* Math.max(0, Math.min(index, swipes.length - 1))
clampNoFloor(index, n) == Min(index, n - 1)
clampIndex(index, n) == Max(0, Min(index, n - 1))

\* array[i] with a 0-based i: undefined outside the array.
Undefined == "undefined"
At(array, i) == IF i + 1 \in DOMAIN array THEN array[i + 1] ELSE Undefined

swipeSelected(message, index) ==
    LET clampedIndex == clampIndex(index, Len(message.swipes))
    IN SetField(SetField(message, "swipeIndex", clampedIndex),
           "content", At(message.swipes, clampedIndex))

\* message.swipeIndex || 0
swipeIndexOr0(message) ==
    IF "swipeIndex" \in DOMAIN message THEN message.swipeIndex ELSE 0

\* session.messages.slice(0, messageIndex + 1).map(m => ({...m, id:
\* generateId()})): the copies take the ids after firstId, in order.
forkedKeepIds(messages, messageIndex, firstId) ==
    SubSeq(messages, 1, messageIndex)
forkedMessages(messages, messageIndex, firstId) ==
    [j \in 1..messageIndex |-> [messages[j] EXCEPT !.id = firstId + j]]

withMessage(session, i, message) ==
    [session EXCEPT !.messages = [session.messages EXCEPT ![i] = message]]

\* The ids a caller can name: those of the stored sessions and messages
\* (a message id of one session is absent from every other), and an absent
\* one.
SessionIdsOf(rows) == DOMAIN rows \cup {AbsentId}
MessageIdsOf(rows) ==
    UNION {{rows[s].messages[i].id : i \in DOMAIN rows[s].messages}
              : s \in DOMAIN rows} \cup {AbsentId}
IdsIn(rows, sid) ==
    IF sid \in DOMAIN rows
    THEN {rows[sid].messages[i].id : i \in DOMAIN rows[sid].messages}
    ELSE {}
\* For a call on session sid: its own message ids, an absent id, and one
\* id that belongs to a message of another session.
ForeignIds(rows, sid) == (MessageIdsOf(rows) \ IdsIn(rows, sid)) \ {AbsentId}
CallMessageIds(rows, sid) ==
    IdsIn(rows, sid) \cup {AbsentId} \cup
    (IF ForeignIds(rows, sid) = {} THEN {}
     ELSE {CHOOSE m \in ForeignIds(rows, sid) :
              \A n \in ForeignIds(rows, sid) : m <= n})
SessionIds == SessionIdsOf(store)
MessageIds(sid) == CallMessageIds(store, sid)

\* What a call leaves: the error it threw (or none), the table, the id
\* counter, and the id of what it returned.
Returns(rows, nid, ret) ==
    [error |-> ErrNone, rows |-> rows, nid |-> nid, ret |-> ret]
Throws(error, rows, nid) ==
    [error |-> error, rows |-> rows, nid |-> nid, ret |-> AbsentId]

EmptyMetadata == [k \in {} |-> ""]

\* createChatSession(characterId, firstMessage?)
createChatSession(rows, nid, firstMessage) ==
    LET id == nid + 1
        messages ==
            IF firstMessage # ""
            THEN <<[id |-> nid + 2, role |-> "assistant",
                    content |-> firstMessage]>>
            ELSE <<>>
        session == [id |-> id, characterId |-> CharacterId,
                    messages |-> messages, metadata |-> EmptyMetadata]
    IN Returns(saveChatSession(rows, session), nid + 1 + Len(messages), id)

\* session.messages.push(message)
unshift(messages, message) == <<message>> \o messages
push(messages, message) == Append(messages, message)

\* addMessage(sessionId, role, content)
addMessage(rows, nid, sid, role, content) ==
    LET session == getChatSession(rows, sid)
    IN IF session = NullSession THEN Throws(ErrSession, rows, nid)
       ELSE LET message == [id |-> nid + 1, role |-> role,
                            content |-> content]
            IN Returns(saveChatSession(rows,
                           [session EXCEPT !.messages = push(@, message)]),
                       nid + 1, message.id)

\* updateMessage(sessionId, messageId, newContent)
updateMessage(rows, nid, sid, mid, newContent) ==
    LET session == getChatSession(rows, sid)
    IN IF session = NullSession THEN Throws(ErrSession, rows, nid)
       ELSE LET messageIndex == findIndex(session.messages, mid)
            IN IF messageIndex = 0 THEN Throws(ErrMessage, rows, nid)
               ELSE Returns(saveChatSession(rows,
                                withMessage(session, messageIndex,
                                    editedMessage(
                                        session.messages[messageIndex],
                                        newContent))),
                            nid, mid)

\* deleteMessage(sessionId, messageId)
deleteMessage(rows, nid, sid, mid) ==
    LET session == getChatSession(rows, sid)
    IN IF session = NullSession THEN Throws(ErrSession, rows, nid)
       ELSE LET messageIndex == findIndex(session.messages, mid)
            IN IF messageIndex = 0 THEN Throws(ErrMessage, rows, nid)
               ELSE Returns(saveChatSession(rows,
                                [session EXCEPT !.messages =
                                    splice(@, messageIndex)]),
                            nid, AbsentId)

\* addSwipe(sessionId, messageId, content)
addSwipe(rows, nid, sid, mid, content) ==
    LET session == getChatSession(rows, sid)
    IN IF session = NullSession THEN Throws(ErrSession, rows, nid)
       ELSE LET messageIndex == findIndex(session.messages, mid)
            IN IF messageIndex = 0 THEN Throws(ErrMessage, rows, nid)
               ELSE Returns(saveChatSession(rows,
                                withMessage(session, messageIndex,
                                    swipeAdded(session.messages[messageIndex],
                                               content))),
                            nid, mid)

\* setSwipeIndex(sessionId, messageId, index)
setSwipeIndex(rows, nid, sid, mid, index) ==
    LET session == getChatSession(rows, sid)
    IN IF session = NullSession THEN Throws(ErrSession, rows, nid)
       ELSE LET messageIndex == findIndex(session.messages, mid)
            IN IF messageIndex = 0 THEN Throws(ErrMessage, rows, nid)
               ELSE LET message == session.messages[messageIndex]
                    IN IF ~HasSwipes(message) \/ Len(message.swipes) = 0
                       THEN Throws(ErrNoSwipes, rows, nid)
                       ELSE Returns(saveChatSession(rows,
                                        withMessage(session, messageIndex,
                                            swipeSelected(message, index))),
                                    nid, mid)

\* nextSwipe (step = 1) and prevSwipe (step = -1): newIndex is computed
\* from the loaded message, then setSwipeIndex loads the session again.
navigate(rows, nid, sid, mid, step) ==
    LET session == getChatSession(rows, sid)
    IN IF session = NullSession THEN Throws(ErrSession, rows, nid)
       ELSE LET messageIndex == findIndex(session.messages, mid)
            IN IF messageIndex = 0 THEN Throws(ErrMessage, rows, nid)
               ELSE LET message == session.messages[messageIndex]
                    IN IF ~HasSwipes(message) \/ Len(message.swipes) <= 1
                       THEN Returns(rows, nid, mid)
                       ELSE LET newIndex ==
                                    IF step > 0
                                    THEN Min(swipeIndexOr0(message) + 1,
                                             Len(message.swipes) - 1)
                                    ELSE Max(swipeIndexOr0(message) - 1, 0)
                            IN setSwipeIndex(rows, nid, sid, mid, newIndex)

nextSwipe(rows, nid, sid, mid) == navigate(rows, nid, sid, mid, 1)
prevSwipe(rows, nid, sid, mid) == navigate(rows, nid, sid, mid, -1)

\* forkChat(sessionId, fromMessageId): generateId is called for the session
\* first, then once per copied message.
forkChat(rows, nid, sid, mid) ==
    LET session == getChatSession(rows, sid)
    IN IF session = NullSession THEN Throws(ErrSession, rows, nid)
       ELSE LET messageIndex == findIndex(session.messages, mid)
            IN IF messageIndex = 0 THEN Throws(ErrMessage, rows, nid)
               ELSE LET id == nid + 1
                        forkedSession ==
                            [id          |-> id,
                             characterId |-> session.characterId,
                             messages    |-> forkedMessages(
                                 session.messages, messageIndex, id),
                             metadata    |-> session.metadata]
                    IN Returns(saveChatSession(rows, forkedSession),
                               nid + 1 + messageIndex, id)

(***************************************************************************)
(* The chat manager's calls as actions.  The guards on the counts only     *)
(* bound the model.                                                        *)
(***************************************************************************)

\* The stored messages, as <<session id, position>> pairs.
Stored(rows) ==
    {p \in (DOMAIN rows) \X (1..MaxIds) : p[2] \in DOMAIN rows[p[1]].messages}

\* At most MaxSwiped stored messages carry swipes, at most MaxSwipes each.
WithinSwipeBounds(rows) ==
    LET swiped == {p \in Stored(rows) : HasSwipes(rows[p[1]].messages[p[2]])}
    IN /\ Cardinality(swiped) <= MaxSwiped
       /\ \A p \in swiped : Len(rows[p[1]].messages[p[2]].swipes) <= MaxSwipes

\* The indexes a caller can request: in range, negative, and far out.
\* On a message that setSwipeIndex rejects, one index stands for all.
Indexes == {-FarIndex, -1} \cup (0..MaxSwipes) \cup {FarIndex}
IndexesFor(rows, sid, mid) ==
    IF /\ mid \in IdsIn(rows, sid)
       /\ \E i \in DOMAIN rows[sid].messages :
              rows[sid].messages[i].id = mid /\ HasSwipes(rows[sid].messages[i])
    THEN Indexes ELSE {0}

\* A call that throws leaves the table as it was: r.rows = store.
Apply(r) ==
    /\ store' = r.rows
    /\ nextId' = r.nid
    /\ UNCHANGED <<truncVars, wiVars, scanVars, promptVars, cardVars,
                 pngVars, walkVars, raceVars, bookVars>>

ChatIdle ==
    /\ store = [id \in {} |-> NullSession]
    /\ nextId = 0

\* The table after initDatabase and one createChatSession with the
\* character's greeting as first message; further sessions come from
\* forkChat.
ChatInit ==
    \E firstMessage \in Greetings :
        LET r == createChatSession([id \in {} |-> NullSession], 0, firstMessage)
        IN store = r.rows /\ nextId = r.nid

AddMessage ==
    \E sid \in SessionIds, role \in ChatRoles, content \in AddContents :
        LET r == addMessage(store, nextId, sid, role, content)
        IN /\ r.nid <= MaxIds
           /\ \A s \in DOMAIN r.rows : Len(r.rows[s].messages) <= MaxMsgs
           /\ Apply(r)

UpdateMessage ==
    \E sid \in SessionIds : \E mid \in MessageIds(sid), newContent \in EditContents :
        Apply(updateMessage(store, nextId, sid, mid, newContent))

DeleteMessage ==
    \E sid \in SessionIds : \E mid \in MessageIds(sid) :
        Apply(deleteMessage(store, nextId, sid, mid))

AddSwipe ==
    \E sid \in SessionIds : \E mid \in MessageIds(sid), content \in SwipeContents :
        LET r == addSwipe(store, nextId, sid, mid, content)
        IN /\ WithinSwipeBounds(r.rows)
           /\ Apply(r)

SetSwipeIndex ==
    \E sid \in SessionIds : \E mid \in MessageIds(sid) :
      \E index \in IndexesFor(store, sid, mid) :
        Apply(setSwipeIndex(store, nextId, sid, mid, index))

NextSwipe ==
    \E sid \in SessionIds : \E mid \in MessageIds(sid) :
        Apply(nextSwipe(store, nextId, sid, mid))

PrevSwipe ==
    \E sid \in SessionIds : \E mid \in MessageIds(sid) :
        Apply(prevSwipe(store, nextId, sid, mid))

ForkChat ==
    \E sid \in SessionIds : \E mid \in MessageIds(sid) :
        LET r == forkChat(store, nextId, sid, mid)
        IN /\ Cardinality(DOMAIN r.rows) <= MaxSessions
           /\ r.nid <= MaxIds
           /\ WithinSwipeBounds(r.rows)
           /\ Apply(r)

ChatNext ==
    \/ AddMessage
    \/ UpdateMessage
    \/ DeleteMessage
    \/ AddSwipe
    \/ SetSwipeIndex
    \/ NextSwipe
    \/ PrevSwipe
    \/ ForkChat

(***************************************************************************)
(* World-info matcher.  A text is a sequence of characters.                *)
(***************************************************************************)

\* Bound of the matcher inputs: the length of keys and of secondaryKeys.
MaxKeys == 2

\* The characters of the sample texts and keys: letters in both cases, a
\* blank, and an opening parenthesis (a pattern that holds one does not
\* compile, no sample holds the closing one).
LowerOf(c) ==
    CASE c = "A" -> "a"
      [] c = "B" -> "b"
      [] c = "<START>" -> "<start>"
      [] c = "User:" -> "user:"
      [] OTHER -> c
IsWordChar(c) == c \in {"a", "b", "A", "B"}
IsBlank(c) == c \in {" ", "\n"}

WTexts == {<<>>, <<"a", "b">>, <<"a", "(", " ", "A">>, <<"b">>}
WKeys == {<<" ">>, <<"a">>, <<"A">>, <<"(">>, <<"A", "(">>}

toLowerCase(str) == [i \in DOMAIN str |-> LowerOf(str[i])]

\* str.includes(key)
includes(str, key) ==
    \E i \in 0..(Len(str) - Len(key)) : SubSeq(str, i + 1, i + Len(key)) = key

\* !keyword || keyword.trim().length === 0
IsBlankKey(keyword) == \A i \in DOMAIN keyword : IsBlank(keyword[i])

\* new RegExp(keyword, flags) throws on an unclosed group.
Compiles(keyword) == \A i \in DOMAIN keyword : keyword[i] # "("

\* regex.test(text) for a pattern of literal characters; the i flag
\* compares without case.
regexTest(pattern, ignoreCase, text) ==
    IF ignoreCase THEN includes(toLowerCase(text), toLowerCase(pattern))
    ELSE includes(text, pattern)

\* \b at offset i of text (between text[i] and text[i+1], 1-based): a word
\* character on exactly one side.
WordAt(text, i) == i \in DOMAIN text /\ IsWordChar(text[i])
Boundary(text, i) == WordAt(text, i) # WordAt(text, i + 1)

\* new RegExp(`\\b${escapedKey}\\b`, flags).test(text)
wholeWordTest(key, ignoreCase, text) ==
    \E i \in 0..(Len(text) - Len(key)) :
        /\ LET found == SubSeq(text, i + 1, i + Len(key))
           IN IF ignoreCase THEN toLowerCase(found) = toLowerCase(key)
              ELSE found = key
        /\ Boundary(text, i)
        /\ Boundary(text, i + Len(key))

matchesKeywordRawFallback(text, keyword, entry) ==
    IF IsBlankKey(keyword) THEN FALSE
    ELSE LET searchText == IF entry.caseSensitive THEN text
                           ELSE toLowerCase(text)
             searchKey  == IF entry.caseSensitive THEN keyword
                           ELSE toLowerCase(keyword)
         IN IF entry.useRegex
            THEN IF Compiles(keyword)
                 THEN regexTest(keyword, ~entry.caseSensitive, text)
                 ELSE includes(text, keyword)
            ELSE IF entry.matchWholeWords
                 THEN wholeWordTest(searchKey, ~entry.caseSensitive, text)
                 ELSE includes(searchText, searchKey)
matchesKeyword(text, keyword, entry) ==
    IF IsBlankKey(keyword) THEN FALSE
    ELSE LET searchText == IF entry.caseSensitive THEN text
                           ELSE toLowerCase(text)
             searchKey  == IF entry.caseSensitive THEN keyword
                           ELSE toLowerCase(keyword)
         IN IF entry.useRegex
            THEN IF Compiles(keyword)
                 THEN regexTest(keyword, ~entry.caseSensitive, text)
                 ELSE includes(searchText, searchKey)
            ELSE IF entry.matchWholeWords
                 THEN wholeWordTest(searchKey, ~entry.caseSensitive, text)
                 ELSE includes(searchText, searchKey)

\* keys.some(key => matchesKeyword(text, key, entry))
some(keys, text, entry) ==
    \E i \in DOMAIN keys : matchesKeyword(text, keys[i], entry)

HasSecondary(entry) == "secondaryKeys" \in DOMAIN entry

matchesEntryConstantFirst(text, entry) ==
    IF entry.constant THEN TRUE
    ELSE IF ~entry.enabled THEN FALSE
    ELSE IF ~some(entry.keys, text, entry) THEN FALSE
    ELSE IF entry.selective /\ HasSecondary(entry)
            /\ Len(entry.secondaryKeys) > 0
         THEN some(entry.secondaryKeys, text, entry)
         ELSE TRUE
matchesEntry(text, entry) ==
    IF ~entry.enabled THEN FALSE
    ELSE IF entry.constant THEN TRUE
    ELSE IF ~some(entry.keys, text, entry) THEN FALSE
    ELSE IF entry.selective /\ HasSecondary(entry)
            /\ Len(entry.secondaryKeys) > 0
         THEN some(entry.secondaryKeys, text, entry)
         ELSE TRUE

\* The entries of the matcher inputs: every list of at most MaxKeys sample
\* keys as keys, secondaryKeys absent or such a list, every flag both ways.
KeyLists == UNION {[1..n -> WKeys] : n \in 0..MaxKeys}
Flags == [enabled : BOOLEAN, constant : BOOLEAN, selective : BOOLEAN,
          caseSensitive : BOOLEAN, matchWholeWords : BOOLEAN,
          useRegex : BOOLEAN]
WEntries ==
    {SetField(f, "keys", k) : f \in Flags, k \in KeyLists}
    \cup {SetField(SetField(f, "keys", k), "secondaryKeys", k2) :
             f \in Flags, k \in KeyLists, k2 \in KeyLists}

WIIdle == wText = <<>> /\ wEntry = NoResult /\ wOut = NoResult

WIInit ==
    /\ wText \in WTexts
    /\ wEntry \in WEntries
    /\ wOut = NoResult

CallMatchesEntry ==
    /\ wOut = NoResult
    /\ wOut' = [kind |-> "matchesEntry", value |-> matchesEntry(wText, wEntry)]
    /\ UNCHANGED <<wText, wEntry, truncVars, chatVars, scanVars, promptVars,
                    cardVars,
                 pngVars, walkVars, raceVars, bookVars>>

WINext ==
    \/ CallMatchesEntry

(***************************************************************************)
(* World-info scan: scanForMatches and scanWithDepth.                      *)
(***************************************************************************)

\* Bounds of the scan inputs.
MaxScanEntries == 3
MaxScanMsgs == 2
MaxScanDepth == 3

\* (entry.priority || 0), (entry.order || 0)
priorityOr0(entry) == IF "priority" \in DOMAIN entry THEN entry.priority ELSE 0
orderOr0(entry) == entry.order

\* The comparator of matches.sort: negative when a goes first.
compareOrderOnly(a, b) == orderOr0(a) - orderOr0(b)
compare(a, b) ==
    LET priorityDiff == priorityOr0(b) - priorityOr0(a)
    IN IF priorityDiff # 0 THEN priorityDiff
       ELSE orderOr0(a) - orderOr0(b)

\* Array.prototype.sort is stable: an element goes behind every element
\* that does not compare greater.
RECURSIVE insertSorted(_, _)
insertSorted(sorted, e) ==
    IF sorted = <<>> THEN <<e>>
    ELSE IF compare(sorted[Len(sorted)], e) <= 0 THEN Append(sorted, e)
    ELSE Append(insertSorted(SubSeq(sorted, 1, Len(sorted) - 1), e),
                sorted[Len(sorted)])

RECURSIVE sort(_)
sort(array) ==
    IF array = <<>> THEN <<>>
    ELSE insertSorted(sort(SubSeq(array, 1, Len(array) - 1)), array[Len(array)])

\* for (const entry of entries) if (matchesEntry(text, entry)) matches.push(entry)
RECURSIVE matchesOf(_, _)
matchesOf(text, entries) ==
    IF entries = <<>> THEN <<>>
    ELSE LET rest == matchesOf(text, SubSeq(entries, 1, Len(entries) - 1))
             entry == entries[Len(entries)]
         IN IF matchesEntry(text, entry) THEN Append(rest, entry) ELSE rest

scanForMatches(text, entries) == sort(matchesOf(text, entries))

\* messages.slice(-scanDepth): a start of -0 is 0, the whole array.
sliceLast(messages, scanDepth) ==
    IF scanDepth = 0 THEN messages
    ELSE SubSeq(messages, Max(1, Len(messages) - scanDepth + 1), Len(messages))

\* contents.join(separator)
RECURSIVE join(_, _)
join(contents, separator) ==
    IF contents = <<>> THEN <<>>
    ELSE IF Len(contents) = 1 THEN contents[1]
    ELSE join(SubSeq(contents, 1, Len(contents) - 1), separator)
         \o separator \o contents[Len(contents)]

contentsOf(messages) == [i \in DOMAIN messages |-> messages[i].content]

scanWithDepth(messages, entries, scanDepth) ==
    LET recentMessages == sliceLast(messages, scanDepth)
        combinedText == join(contentsOf(recentMessages), <<"\n">>)
    IN scanForMatches(combinedText, entries)

\* The entries of the scan inputs: keyed on a, keyed on b or constant, with
\* priority absent, 0 or 1 and order 0 or 1; ids follow the input order.
PlainFlags == [enabled |-> TRUE, constant |-> FALSE, selective |-> FALSE,
               caseSensitive |-> FALSE, matchWholeWords |-> FALSE,
               useRegex |-> FALSE]
ScanKinds ==
    {SetField(PlainFlags, "keys", << <<"a">> >>),
     SetField(PlainFlags, "keys", << <<"b">> >>),
     SetField([PlainFlags EXCEPT !.constant = TRUE], "keys", <<>>)}
ScanShapes ==
    {SetField(k, "order", o) : k \in ScanKinds, o \in {0, 1}}
    \cup {SetField(SetField(k, "order", o), "priority", p) :
             k \in ScanKinds, o \in {0, 1}, p \in {0, 1}}
ScanEntryLists ==
    UNION {{[i \in 1..n |-> SetField(f[i], "id", i)] : f \in [1..n -> ScanShapes]}
              : n \in 0..MaxScanEntries}
ScanContents == {<<"a">>, <<"b">>}
ScanMsgLists ==
    UNION {{[i \in 1..n |-> [content |-> f[i]]] : f \in [1..n -> ScanContents]}
              : n \in 0..MaxScanMsgs}

ScanIdle ==
    sMsgs = <<>> /\ sEntries = <<>> /\ sDepth = 0 /\ sOut = NoResult

ScanInit ==
    /\ sMsgs \in ScanMsgLists
    /\ sEntries \in ScanEntryLists
    /\ sDepth \in 0..MaxScanDepth
    /\ sOut = NoResult

\* scanForMatches on the whole history as one text.
CallScanForMatches ==
    /\ sOut = NoResult
    /\ LET text == join(contentsOf(sMsgs), <<"\n">>)
       IN sOut' = [kind |-> "scanForMatches", text |-> text,
                   value |-> scanForMatches(text, sEntries)]
    /\ UNCHANGED <<sMsgs, sEntries, sDepth, truncVars, chatVars, wiVars,
                   promptVars, cardVars,
                 pngVars, walkVars, raceVars, bookVars>>

CallScanWithDepth ==
    /\ sOut = NoResult
    /\ sOut' = [kind |-> "scanWithDepth",
                value |-> scanWithDepth(sMsgs, sEntries, sDepth)]
    /\ UNCHANGED <<sMsgs, sEntries, sDepth, truncVars, chatVars, wiVars,
                   promptVars, cardVars,
                 pngVars, walkVars, raceVars, bookVars>>

ScanNext ==
    \/ CallScanForMatches
    \/ CallScanWithDepth

(***************************************************************************)
(* Prompt builder.  A text is a sequence of atoms: single characters, and  *)
(* the fixed labels of the builder, each one atom.  Names are plain text   *)
(* (no pattern characters), so `^${characterName}:` is a literal prefix.   *)
(***************************************************************************)

Paragraph == <<"\n", "\n">>
Newline == <<"\n">>

RECURSIVE trimStart(_)
trimStart(text) ==
    IF text # <<>> /\ IsBlank(text[1]) THEN trimStart(Tail(text)) ELSE text

RECURSIVE trimEnd(_)
trimEnd(text) ==
    IF text # <<>> /\ IsBlank(text[Len(text)])
    THEN trimEnd(SubSeq(text, 1, Len(text) - 1))
    ELSE text

trim(text) == trimEnd(trimStart(text))

startsWith(text, prefix) ==
    Len(text) >= Len(prefix) /\ SubSeq(text, 1, Len(prefix)) = prefix

\* text.split('\n')
RECURSIVE split(_)
split(text) ==
    IF \A i \in DOMAIN text : text[i] # "\n" THEN <<text>>
    ELSE LET i == CHOOSE k \in DOMAIN text :
                      text[k] = "\n" /\ \A j \in 1..(k - 1) : text[j] # "\n"
         IN <<SubSeq(text, 1, i - 1)>> \o split(SubSeq(text, i + 1, Len(text)))

\* The non-empty ones of the parts, in order.
RECURSIVE truthy(_)
truthy(parts) ==
    IF parts = <<>> THEN <<>>
    ELSE (IF parts[1] # <<>> THEN <<parts[1]>> ELSE <<>>) \o truthy(Tail(parts))

HasPersona(context) == "persona" \in DOMAIN context

buildSystemMessage(character, context) ==
    join(truthy(<<context.systemPrompt,
                  character.system_prompt,
                  IF HasPersona(context) /\ context.persona.description # <<>>
                  THEN <<"User's persona: ">> \o context.persona.description
                  ELSE <<>> >>),
         Paragraph)

buildCharacterContext(character) ==
    join(truthy(<<IF character.description # <<>>
                  THEN <<"Character: ">> \o character.name \o Newline
                       \o character.description
                  ELSE <<>>,
                  IF character.personality # <<>>
                  THEN <<"Personality: ">> \o character.personality
                  ELSE <<>>,
                  IF character.scenario # <<>>
                  THEN <<"Scenario: ">> \o character.scenario
                  ELSE <<>> >>),
         Paragraph)

\* parseExampleMessages: the state of the loop over the lines.
NoRole == "null"
saved(st) ==
    IF st.currentRole # NoRole /\ Len(st.currentContent) > 0
    THEN Append(st.messages,
                [role |-> st.currentRole,
                 content |-> trim(join(st.currentContent, Newline))])
    ELSE st.messages

exampleLine(st, line, characterName) ==
    LET userMatch == toLowerCase(line) = <<"<start>">>
        charPrefix == characterName \o <<":">>
        charMatch == startsWith(toLowerCase(line), toLowerCase(charPrefix))
        userMsgMatch == line # <<>> /\ toLowerCase(<<line[1]>>) \in
                            {<<"{{user}}:">>, <<"user:">>}
    IN IF userMatch
       THEN [messages |-> saved(st), currentRole |-> NoRole,
             currentContent |-> <<>>]
       ELSE IF charMatch
       THEN [messages |-> saved(st), currentRole |-> "assistant",
             currentContent |->
                 <<trim(SubSeq(line, Len(charPrefix) + 1, Len(line)))>>]
       ELSE IF userMsgMatch
       THEN [messages |-> saved(st), currentRole |-> "user",
             currentContent |-> <<trim(Tail(line))>>]
       ELSE IF st.currentRole # NoRole
       THEN [st EXCEPT !.currentContent = Append(@, line)]
       ELSE st

RECURSIVE exampleLoop(_, _, _)
exampleLoop(st, lines, characterName) ==
    IF lines = <<>> THEN st
    ELSE exampleLoop(exampleLine(st, lines[1], characterName), Tail(lines),
                     characterName)

parseExampleMessages(mesExample, characterName) ==
    IF trim(mesExample) = <<>> THEN <<>>
    ELSE saved(exampleLoop([messages |-> <<>>, currentRole |-> NoRole,
                            currentContent |-> <<>>],
                           split(mesExample), characterName))

\* chatHistory.slice(-10)
ScanWindow == 10

\* scanAndCollectWorldInfo: one key against the scan text.
keyMatches(scanText, key, entry) ==
    IF entry.useRegex
    THEN IF Compiles(key)
         THEN regexTest(key, ~entry.caseSensitive, scanText)
         ELSE FALSE
    ELSE LET searchKey == IF entry.caseSensitive THEN key ELSE toLowerCase(key)
             searchText == IF entry.caseSensitive THEN scanText
                           ELSE toLowerCase(scanText)
         IN IF entry.matchWholeWords
            THEN wholeWordTest(searchKey, TRUE, searchText)
            ELSE includes(searchText, searchKey)

\* The entries of the books, book after book.
RECURSIVE entriesOf(_)
entriesOf(worldInfoBooks) ==
    IF worldInfoBooks = <<>> THEN <<>>
    ELSE worldInfoBooks[1].entries \o entriesOf(Tail(worldInfoBooks))

RECURSIVE collected(_, _)
collected(scanText, entries) ==
    IF entries = <<>> THEN <<>>
    ELSE LET entry == entries[1]
             matches == \E i \in DOMAIN entry.keys :
                            keyMatches(scanText, entry.keys[i], entry)
         IN (IF entry.enabled /\ (matches \/ entry.constant)
             THEN <<entry>> ELSE <<>>)
            \o collected(scanText, Tail(entries))

\* matchedEntries.sort((a, b) => (a.order || 0) - (b.order || 0)), stable.
RECURSIVE insertByOrder(_, _)
insertByOrder(sorted, e) ==
    IF sorted = <<>> THEN <<e>>
    ELSE IF orderOr0(sorted[Len(sorted)]) - orderOr0(e) <= 0
    THEN Append(sorted, e)
    ELSE Append(insertByOrder(SubSeq(sorted, 1, Len(sorted) - 1), e),
                sorted[Len(sorted)])

RECURSIVE sortByOrder(_)
sortByOrder(array) ==
    IF array = <<>> THEN <<>>
    ELSE insertByOrder(sortByOrder(SubSeq(array, 1, Len(array) - 1)),
                       array[Len(array)])

matchedEntriesOf(chatHistory, worldInfoBooks) ==
    LET recentMessages == sliceLast(chatHistory, ScanWindow)
        scanText == toLowerCase(join(contentsOf(recentMessages), <<" ">>))
    IN sortByOrder(collected(scanText, entriesOf(worldInfoBooks)))

scanAndCollectWorldInfo(chatHistory, worldInfoBooks) ==
    join(contentsOf(matchedEntriesOf(chatHistory, worldInfoBooks)), Paragraph)

injectAuthorsNote(content, authorsNote) ==
    LET noteText == <<"[Author's Note: ">> \o authorsNote.content \o <<"]">>
    IN CASE authorsNote.position = "before_char" ->
                noteText \o Newline \o content
         [] authorsNote.position = "after_char" ->
                content \o Newline \o noteText
         [] OTHER -> content

HasNote(context) == "authorsNote" \in DOMAIN context
HasWorldInfo(context) == "worldInfo" \in DOMAIN context
HasTemplate(context) == "instructTemplate" \in DOMAIN context

\* The message of history turn i.
historyMessage(context, i) ==
    LET msg == context.chatHistory[i]
        depthFromEnd == Len(context.chatHistory) - 1 - (i - 1)
        content ==
            IF /\ HasNote(context)
               /\ context.authorsNote.position = "in_chat"
               /\ depthFromEnd = context.authorsNote.depth
            THEN injectAuthorsNote(msg.content, context.authorsNote)
            ELSE msg.content
    IN [role |-> IF msg.role = "user" THEN "user" ELSE "assistant",
        content |-> content]

historyMessages(context) ==
    [i \in DOMAIN context.chatHistory |-> historyMessage(context, i)]

templated(msg, template) ==
    LET content ==
            CASE msg.role = "system" ->
                    template.systemPromptPrefix \o msg.content
                    \o template.systemPromptSuffix
              [] msg.role = "user" ->
                    template.userPrefix \o msg.content \o template.userSuffix
              [] msg.role = "assistant" ->
                    template.assistantPrefix \o msg.content
                    \o template.assistantSuffix
              [] OTHER -> msg.content
    IN [role |-> msg.role,
        content |-> IF template.wrapInNewlines
                    THEN Newline \o content \o Newline ELSE content]

applyInstructTemplate(messages, template) ==
    [i \in DOMAIN messages |-> templated(messages[i], template)]

\* The number of characters of an atom: the labels count their letters.
Width(c) ==
    CASE c = "User's persona: " -> 16
      [] c = "Character: " -> 11
      [] c = "Personality: " -> 13
      [] c = "Scenario: " -> 10
      [] c = "[Author's Note: " -> 16
      [] c = "<START>" -> 7
      [] c = "{{user}}:" -> 9
      [] c = "User:" -> 5
      [] c = "<|system|>" -> 10
      [] c = "<|user|>" -> 8
      [] c = "<|assistant|>" -> 13
      [] c = "<|end|>" -> 7
      [] OTHER -> 1

RECURSIVE length(_)
length(text) ==
    IF text = <<>> THEN 0 ELSE Width(text[1]) + length(Tail(text))

RECURSIVE totalCharsOf(_)
totalCharsOf(messages) ==
    IF messages = <<>> THEN 0
    ELSE length(messages[1].content) + totalCharsOf(Tail(messages))

\* The order in which buildPrompt pushes.
assembledHistoryFirst(system, context, examples, history) ==
    system \o context \o history \o examples
assembled(system, context, examples, history) ==
    system \o context \o examples \o history

buildPrompt(context) ==
    LET character == context.character
        systemContent == buildSystemMessage(character, context)
        worldInfoContent ==
            IF HasWorldInfo(context)
            THEN scanAndCollectWorldInfo(context.chatHistory, context.worldInfo)
            ELSE <<>>
        system ==
            IF systemContent # <<>> \/ worldInfoContent # <<>>
            THEN <<[role |-> "system",
                    content |-> IF worldInfoContent # <<>>
                                THEN systemContent \o Paragraph
                                     \o worldInfoContent
                                ELSE systemContent]>>
            ELSE <<>>
        characterContext == buildCharacterContext(character)
        contextMessage ==
            IF characterContext # <<>>
            THEN <<[role |-> "system", content |-> characterContext]>>
            ELSE <<>>
        examples ==
            IF character.mes_example # <<>>
            THEN parseExampleMessages(character.mes_example, character.name)
            ELSE <<>>
        messages == assembled(system, contextMessage, examples,
                              historyMessages(context))
        finalMessages ==
            IF HasTemplate(context)
            THEN applyInstructTemplate(messages, context.instructTemplate)
            ELSE messages
        estimatedTokens ==
            (totalCharsOf(finalMessages) + CharsPerToken - 1) \div CharsPerToken
    IN [messages |-> finalMessages,
        tokenCount |-> estimatedTokens,
        truncated |-> estimatedTokens > context.maxContextTokens]

validatePromptCompleteness(result, context) ==
    LET hasCharacterContext ==
            \E i \in DOMAIN result.messages :
                includes(result.messages[i].content, context.character.name)
        hasUserMessages ==
            \E i \in DOMAIN result.messages : result.messages[i].role = "user"
        missing ==
            (IF ~hasCharacterContext /\ context.character.name # <<>>
             THEN <<"character_name">> ELSE <<>>)
            \o (IF Len(context.chatHistory) > 0 /\ ~hasUserMessages
                THEN <<"chat_history">> ELSE <<>>)
    IN [valid |-> missing = <<>>, missing |-> missing]

\* Bound of the prompt inputs: the length of the history.
MaxHistory == 3

\* The characters of the prompt inputs, all named N: nothing but the name;
\* a description; every part, with a system prompt and an example dialogue
\* of one user and one assistant turn; personality and examples only.
CharacterName == <<"N">>
BareCharacter ==
    [name |-> CharacterName, description |-> <<>>, personality |-> <<>>,
     scenario |-> <<>>, first_mes |-> <<>>, mes_example |-> <<>>,
     system_prompt |-> <<>>]
ExampleDialogue ==
    <<"<START>", "\n", "{{user}}:", " ", "b", "\n", "N", ":", " ", "a">>
Characters ==
    {BareCharacter,
     [BareCharacter EXCEPT !.description = <<"d">>],
     [BareCharacter EXCEPT !.description = <<"d">>, !.personality = <<"p">>,
                           !.scenario = <<"s">>, !.system_prompt = <<"y">>,
                           !.mes_example = ExampleDialogue],
     [BareCharacter EXCEPT !.personality = <<"p">>,
                           !.mes_example = ExampleDialogue]}

\* character, systemPrompt and persona: each character without the two,
\* and the bare and the full character with both.
Heads ==
    {[character |-> c, systemPrompt |-> <<>>] : c \in Characters}
    \cup {[character |-> c, systemPrompt |-> <<"x">>,
           persona |-> [description |-> <<"q">>]] :
             c \in {BareCharacter} \cup
                   {d \in Characters : d.system_prompt # <<>>}}

Histories ==
    UNION {[1..n -> [role : Roles, content : {<<"a">>, <<"b">>}]]
              : n \in 0..MaxHistory}

\* Author's notes: in_chat at the last turn, one turn before it and beyond
\* every history; before_char and after_char at the last turn.
Notes ==
    {[content |-> <<"n">>, position |-> "in_chat", depth |-> d, role |-> "system"]
        : d \in {0, 1, MaxHistory}}
    \cup {[content |-> <<"n">>, position |-> pos, depth |-> 0, role |-> "system"]
             : pos \in {"before_char", "after_char"}}

\* World-info books: one entry keyed on a, placed at depth 0; a constant
\* before_char entry behind (by order) an after_example entry keyed on b;
\* two before_char entries keyed on a, the second (by order) of priority 1.
BookEntry(id, keys, constant, position, order, content) ==
    [id |-> id, keys |-> keys, content |-> content, enabled |-> TRUE,
     constant |-> constant, selective |-> FALSE, position |-> position,
     depth |-> 0, caseSensitive |-> FALSE, matchWholeWords |-> FALSE,
     useRegex |-> FALSE, order |-> order]
Books ==
    {<<[entries |-> <<BookEntry(1, << <<"a">> >>, FALSE, "depth", 0, <<"w">>)>>]>>,
     <<[entries |->
          <<BookEntry(1, <<>>, TRUE, "before_char", 1, <<"v">>),
            BookEntry(2, << <<"b">> >>, FALSE, "after_example", 0, <<"w">>)>>]>>,
     <<[entries |->
          <<BookEntry(1, << <<"a">> >>, FALSE, "before_char", 0, <<"v">>),
            SetField(BookEntry(2, << <<"a">> >>, FALSE, "before_char", 1,
                               <<"w">>),
                     "priority", 1)>>]>>}

Template ==
    [systemPromptPrefix |-> <<"<|system|>">>, systemPromptSuffix |-> <<"<|end|>">>,
     userPrefix |-> <<"<|user|>">>, userSuffix |-> <<"<|end|>">>,
     assistantPrefix |-> <<"<|assistant|>">>, assistantSuffix |-> <<"<|end|>">>,
     wrapInNewlines |-> TRUE]

\* maxContextTokens: below every estimate of a non-empty prompt, and above
\* every estimate.
SmallContext == 0
LargeContext == 4096

\* An optional field of the context: left out, or one of the values.
Optional(values) ==
    {[given |-> FALSE]} \cup {[given |-> TRUE, value |-> v] : v \in values}
WithOption(context, field, option) ==
    IF option.given THEN SetField(context, field, option.value) ELSE context

Context(head, chatHistory, maxContextTokens, note, books, template) ==
    WithOption(
        WithOption(
            WithOption(
                SetField(SetField(head, "chatHistory", chatHistory),
                         "maxContextTokens", maxContextTokens),
                "authorsNote", note),
            "worldInfo", books),
        "instructTemplate", template)

PromptIdle == pCtx = NoResult /\ pOut = NoResult

PromptInit ==
    /\ \E head \in Heads, chatHistory \in Histories,
          maxContextTokens \in {SmallContext, LargeContext},
          note \in Optional(Notes), books \in Optional(Books),
          template \in Optional({Template}) :
           pCtx = Context(head, chatHistory, maxContextTokens, note, books,
                          template)
    /\ pOut = NoResult

CallBuildPrompt ==
    /\ pOut = NoResult
    /\ pOut' = [kind |-> "buildPrompt", result |-> buildPrompt(pCtx)]
    /\ UNCHANGED <<pCtx, truncVars, chatVars, wiVars, scanVars, cardVars,
                 pngVars, walkVars, raceVars, bookVars>>

\* validatePromptCompleteness on what buildPrompt returned.
CallValidatePromptCompleteness ==
    /\ pOut.kind = "buildPrompt"
    /\ pOut' = [kind |-> "validatePromptCompleteness",
                result |-> pOut.result,
                validation |-> validatePromptCompleteness(pOut.result, pCtx)]
    /\ UNCHANGED <<pCtx, truncVars, chatVars, wiVars, scanVars, cardVars,
                 pngVars, walkVars, raceVars, bookVars>>

PromptNext ==
    \/ CallBuildPrompt
    \/ CallValidatePromptCompleteness

(***************************************************************************)
(* Character card parser.  A JavaScript value is a record tagged with its  *)
(* type; an object is a function from its keys to its values.  A JSON text *)
(* is the tree it denotes and its layout (pretty or compact).              *)
(***************************************************************************)

Str(s) == [t |-> "string", v |-> s]
Num(n) == [t |-> "number", v |-> n]
Arr(a) == [t |-> "array", v |-> a]
Obj(f) == [t |-> "object", v |-> f]
Null == [t |-> "null"]
Undef == [t |-> "undefined"]
NoKeys == [k \in {} |-> Undef]

\* typeof x === 'object' && x !== null
isObject(x) == x.t \in {"object", "array"}

\* 'key' in x, for an object x
in(key, x) == x.t = "object" /\ key \in DOMAIN x.v

\* x.key
get(x, key) == IF in(key, x) THEN x.v[key] ELSE Undef

isTruthy(x) ==
    CASE x.t = "string" -> x.v # ""
      [] x.t = "number" -> x.v # 0
      [] x.t \in {"null", "undefined"} -> FALSE
      [] OTHER -> TRUE

\* a || b
or(a, b) == IF isTruthy(a) THEN a ELSE b

\* String(x) for the values that reach it (of the arrays, the empty one)
String(x) ==
    CASE x.t = "string" -> x
      [] x.t = "number" -> Str(ToString(x.v))
      [] x.t = "array" -> Str("")
      [] OTHER -> Str("[object Object]")

\* JSON.stringify: members whose value is undefined are left out.
RECURSIVE jsonOf(_)
jsonOf(x) ==
    CASE x.t = "object" ->
            Obj([k \in {j \in DOMAIN x.v : x.v[j].t # "undefined"}
                    |-> jsonOf(x.v[k])])
      [] x.t = "array" ->
            Arr([i \in DOMAIN x.v |->
                    IF x.v[i].t = "undefined" THEN Null ELSE jsonOf(x.v[i])])
      [] OTHER -> x

stringify(x, pretty) == [pretty |-> pretty, json |-> jsonOf(x)]

\* JSON.parse: the layout is not part of the value.
parse(text) == text.json

isV2Card(data) ==
    isObject(data) /\ in("spec", data) /\ data.v["spec"] = Str("chara_card_v2")

isV1Card(data) ==
    /\ isObject(data)
    /\ in("name", data) /\ in("description", data) /\ in("first_mes", data)
    /\ ~in("spec", data)

RequiredFields ==
    {"name", "description", "personality", "scenario", "first_mes",
     "mes_example"}
OptionalFields ==
    {"creator_notes", "system_prompt", "post_history_instructions",
     "alternate_greetings", "tags", "creator", "character_version",
     "extensions"}
IdentityFields ==
    {"id", "avatar", "createdAt", "updatedAt", "isFavorite", "chatCount"}

Card(data) ==
    Obj([k \in {"spec", "spec_version", "data"} |->
            CASE k = "spec" -> Str("chara_card_v2")
              [] k = "spec_version" -> Str("2.0")
              [] OTHER -> data])

Parsed(card) == [ok |-> TRUE, card |-> card]
Rejected(error) == [ok |-> FALSE, error |-> error]

convertV1ToV2(v1Card) ==
    Card(Obj([k \in RequiredFields |-> or(get(v1Card, k), Str(""))]))

mapString(x) ==
    IF x.t = "array" THEN Arr([i \in DOMAIN x.v |-> String(x.v[i])]) ELSE Undef

stringOrUndefined(x) == IF isTruthy(x) THEN String(x) ELSE Undef

extractCharacterData(obj) ==
    Obj([k \in RequiredFields \cup OptionalFields |->
            CASE k = "first_mes" ->
                    String(or(or(get(obj, "first_mes"),
                                 get(obj, "first_message")), Str("")))
              [] k = "mes_example" ->
                    String(or(or(get(obj, "mes_example"),
                                 get(obj, "example_dialogue")), Str("")))
              [] k \in RequiredFields -> String(or(get(obj, k), Str("")))
              [] k \in {"alternate_greetings", "tags"} -> mapString(get(obj, k))
              [] k = "extensions" -> get(obj, k)
              [] OTHER -> stringOrUndefined(get(obj, k))])

validateV2CardRequiredOnly(card) ==
    IF ~isTruthy(get(card, "data")) THEN Rejected("V2 card missing data field")
    ELSE IF ~isTruthy(get(get(card, "data"), "name"))
    THEN Rejected("Character name is required")
    ELSE Parsed(convertV1ToV2(get(card, "data")))
validateV2Card(card) ==
    IF ~isTruthy(get(card, "data")) THEN Rejected("V2 card missing data field")
    ELSE IF ~isTruthy(get(get(card, "data"), "name"))
    THEN Rejected("Character name is required")
    ELSE LET data == get(card, "data")
         IN Parsed(Card(Obj([k \in RequiredFields \cup OptionalFields |->
                CASE k = "name" -> get(data, k)
                  [] k \in RequiredFields -> or(get(data, k), Str(""))
                  [] OTHER -> get(data, k)])))

parseCharacterCard(jsonString) ==
    LET data == parse(jsonString)
    IN IF isV2Card(data) THEN validateV2Card(data)
       ELSE IF isV1Card(data) THEN Parsed(convertV1ToV2(data))
       ELSE IF /\ isObject(data) /\ in("data", data)
               /\ (isObject(data.v["data"]) \/ data.v["data"] = Null)
       THEN IF data.v["data"] = Null
            THEN Rejected("TypeError")
            ELSE IF in("name", data.v["data"])
            THEN Parsed(Card(extractCharacterData(data.v["data"])))
            ELSE IF in("name", data)
            THEN Parsed(Card(extractCharacterData(data)))
            ELSE Rejected("Invalid character card format")
       ELSE IF isObject(data) /\ in("name", data)
       THEN Parsed(Card(extractCharacterData(data)))
       ELSE Rejected("Invalid character card format")

\* {...data, id, avatar, createdAt, updatedAt, isFavorite, chatCount}
createCharacterFromData(data) ==
    Obj([k \in DOMAIN data.v \cup IdentityFields |->
            CASE k = "id" -> Str("id")
              [] k = "avatar" -> Undef
              [] k \in {"createdAt", "updatedAt"} -> Num(1)
              [] k = "isFavorite" -> [t |-> "boolean", v |-> FALSE]
              [] k = "chatCount" -> Num(0)
              [] OTHER -> data.v[k]])

\* const {id, avatar, createdAt, updatedAt, isFavorite, chatCount, ...data}
exportToV2Card(character) ==
    Card(Obj([k \in DOMAIN character.v \ IdentityFields |-> character.v[k]]))

exportCharacterToJson(character, pretty) ==
    stringify(exportToV2Card(character), pretty)

CardIdle == cIn = NoResult /\ cOut = NoResult

\* The object with the given members: pairs <<key, value>>.
Members(pairs) ==
    Obj([k \in {pr[1] : pr \in pairs} |->
            (CHOOSE pr \in pairs : pr[1] = k)[2]])

\* A key with each of the values, or without a member (None).
None == [t |-> "none"]
Choices(key, values) == {<<key, v>> : v \in values}
Given(pairs) == {pr \in pairs : pr[2] # None}

\* Valid character data: the name is set; description and first_mes are
\* empty or not; creator_notes is absent, undefined, empty or set;
\* system_prompt and tags are absent or set; extensions are absent, empty
\* or hold a known and a free key.
Extensions ==
    {None, Obj(NoKeys),
     Members({<<"world", Str("w")>>, <<"custom", Num(7)>>})}
CharacterDatas ==
    {Members(Given({<<"name", Str("N")>>, description, <<"personality", Str("p")>>,
                    <<"scenario", Str("")>>, first_mes, <<"mes_example", Str("")>>,
                    creator_notes, system_prompt, tags, extensions})) :
        description \in Choices("description", {Str(""), Str("d")}),
        first_mes \in Choices("first_mes", {Str(""), Str("f")}),
        creator_notes \in Choices("creator_notes", {None, Undef, Str(""), Str("c")}),
        system_prompt \in Choices("system_prompt", {None, Str("y")}),
        tags \in Choices("tags", {None, Arr(<<>>), Arr(<<Str("t")>>)}),
        extensions \in Choices("extensions", Extensions)}

\* JSON trees handed to the parser: the character fields, with the name
\* absent, null, empty or set and other fields absent or set, as a
\* generation-2 card, under a data member without spec, or flat (a
\* generation-1 card when name, description and first_mes are members,
\* else a root object).
FieldSets ==
    {Members(Given({name, description, first_mes, personality})) :
        name \in Choices("name", {None, Null, Str(""), Str("N")}),
        description \in Choices("description", {None, Str("d")}),
        first_mes \in Choices("first_mes", {None, Str("f")}),
        personality \in Choices("personality", {None, Str("p")})}
JsonTrees ==
    {Card(f) : f \in FieldSets}
    \cup {Members({<<"data", f>>}) : f \in FieldSets}
    \cup FieldSets

CardInit ==
    /\ cIn \in {[kind |-> "data", data |-> d] : d \in CharacterDatas}
               \cup {[kind |-> "json", text |-> [pretty |-> b, json |-> j]] :
                        b \in BOOLEAN, j \in JsonTrees}
    /\ cOut = NoResult

\* exportCharacterToJson(createCharacterFromData(data), pretty)
CallExportCharacterToJson ==
    /\ cIn.kind = "data" /\ cOut = NoResult
    /\ \E pretty \in BOOLEAN :
           cOut' = [kind |-> "exportCharacterToJson",
                    text |-> exportCharacterToJson(
                                 createCharacterFromData(cIn.data), pretty)]
    /\ UNCHANGED <<cIn, truncVars, chatVars, wiVars, scanVars, promptVars,
                 pngVars, walkVars, raceVars, bookVars>>

\* parseCharacterCard on the text handed in, or on the text just exported.
CallParseCharacterCard ==
    /\ \/ cIn.kind = "json" /\ cOut = NoResult
       \/ cOut.kind = "exportCharacterToJson"
    /\ LET text == IF cIn.kind = "json" THEN cIn.text ELSE cOut.text
       IN cOut' = [kind |-> "parseCharacterCard", text |-> text,
                   result |-> parseCharacterCard(text)]
    /\ UNCHANGED <<cIn, truncVars, chatVars, wiVars, scanVars, promptVars,
                 pngVars, walkVars, raceVars, bookVars>>

CardNext ==
    \/ CallExportCharacterToJson
    \/ CallParseCharacterCard


(***************************************************************************)
(* PNG embedding of character cards.  A byte array is the sequence of its  *)
(* bytes (0..255) and a JavaScript string the sequence of its code units;  *)
(* both are indexed from 0 in the code and from 1 here.  A call that       *)
(* throws yields Thrown, a call that returns yields Returned(value).       *)
(***************************************************************************)

Thrown == [threw |-> TRUE]
Returned(value) == [threw |-> FALSE, value |-> value]

PNG_SIGNATURE == <<137, 80, 78, 71, 13, 10, 26, 10>>
CHARA_KEYWORD == <<99, 104, 97, 114, 97>>
tEXt == <<116, 69, 88, 116>>
IEND == <<73, 69, 78, 68>>

\* bytes[i]: undefined outside the array, which the bit operators and
\* String.fromCharCode take as 0.
byteAt(bytes, i) == IF i >= 0 /\ i < Len(bytes) THEN bytes[i + 1] ELSE 0

\* Uint8Array.prototype.slice(start, end): a negative index counts from the
\* end, both are clamped to the array.
relativeIndex(i, len) == IF i < 0 THEN Max(len + i, 0) ELSE Min(i, len)
slice(bytes, start, end) ==
    SubSeq(bytes, relativeIndex(start, Len(bytes)) + 1,
           relativeIndex(end, Len(bytes)))

\* (bytes[o] << 24) | (bytes[o + 1] << 16) | (bytes[o + 2] << 8) | bytes[o + 3]:
\* a signed 32-bit integer, negative when the high bit of the first byte is
\* set.
readLength(bytes, offset) ==
    LET high == byteAt(bytes, offset)
    IN (IF high >= 128 THEN high - 256 ELSE high) * 16777216
       + byteAt(bytes, offset + 1) * 65536
       + byteAt(bytes, offset + 2) * 256 + byteAt(bytes, offset + 3)

\* String.fromCharCode(bytes[o], bytes[o + 1], bytes[o + 2], bytes[o + 3])
readType(bytes, offset) ==
    <<byteAt(bytes, offset), byteAt(bytes, offset + 1),
      byteAt(bytes, offset + 2), byteAt(bytes, offset + 3)>>

\* for (i < PNG_SIGNATURE.length) if (bytes[i] !== PNG_SIGNATURE[i]) throw
hasSignature(bytes) ==
    /\ Len(bytes) >= Len(PNG_SIGNATURE)
    /\ SubSeq(bytes, 1, Len(PNG_SIGNATURE)) = PNG_SIGNATURE

\* while (nullIndex < chunkData.length && chunkData[nullIndex] !== 0)
RECURSIVE nullIndexFrom(_, _)
nullIndexFrom(chunkData, nullIndex) ==
    IF nullIndex < Len(chunkData) /\ byteAt(chunkData, nullIndex) # 0
    THEN nullIndexFrom(chunkData, nullIndex + 1)
    ELSE nullIndex

keywordOf(chunkData) == slice(chunkData, 0, nullIndexFrom(chunkData, 0))

\* The base64 alphabet: A-Z, a-z, 0-9, + and /; = pads.
base64Char(n) ==
    CASE n < 26 -> 65 + n
      [] n < 52 -> 97 + (n - 26)
      [] n < 62 -> 48 + (n - 52)
      [] n = 62 -> 43
      [] OTHER -> 47

isBase64Char(c) ==
    \/ c \in 65..90 \/ c \in 97..122 \/ c \in 48..57 \/ c = 43 \/ c = 47

base64Value(c) ==
    CASE c \in 65..90 -> c - 65
      [] c \in 97..122 -> c - 97 + 26
      [] c \in 48..57 -> c - 48 + 52
      [] c = 43 -> 62
      [] OTHER -> 63

\* Three bytes make four characters; one or two last bytes make two or
\* three characters and padding.  Longer input is encoded in two parts
\* split at a multiple of three.
RECURSIVE encodeBase64(_)
encodeBase64(s) ==
    IF Len(s) = 0 THEN <<>>
    ELSE IF Len(s) = 1
    THEN <<base64Char(s[1] \div 4), base64Char((s[1] % 4) * 16), 61, 61>>
    ELSE IF Len(s) = 2
    THEN <<base64Char(s[1] \div 4),
           base64Char((s[1] % 4) * 16 + (s[2] \div 16)),
           base64Char((s[2] % 16) * 4), 61>>
    ELSE IF Len(s) = 3
    THEN <<base64Char(s[1] \div 4),
           base64Char((s[1] % 4) * 16 + (s[2] \div 16)),
           base64Char((s[2] % 16) * 4 + (s[3] \div 64)),
           base64Char(s[3] % 64)>>
    ELSE LET half == 3 * (((Len(s) + 2) \div 3) \div 2)
         IN encodeBase64(SubSeq(s, 1, half))
            \o encodeBase64(SubSeq(s, half + 1, Len(s)))

\* btoa: throws on a code unit above 0xFF.
btoa(s) ==
    IF \E i \in DOMAIN s : s[i] > 255 THEN Thrown
    ELSE Returned(encodeBase64(s))

\* Four characters make three bytes; two or three last characters make one
\* or two bytes, their spare bits dropped.  Longer input is decoded in two
\* parts split at a multiple of four.
RECURSIVE decodeBase64(_)
decodeBase64(t) ==
    IF Len(t) < 2 THEN <<>>
    ELSE IF Len(t) <= 4
    THEN LET a == base64Value(t[1])
             b == base64Value(t[2])
             c == IF Len(t) >= 3 THEN base64Value(t[3]) ELSE 0
             d == IF Len(t) >= 4 THEN base64Value(t[4]) ELSE 0
         IN <<a * 4 + (b \div 16)>>
            \o (IF Len(t) >= 3 THEN <<(b % 16) * 16 + (c \div 4)>> ELSE <<>>)
            \o (IF Len(t) >= 4 THEN <<(c % 4) * 64 + d>> ELSE <<>>)
    ELSE LET half == 4 * (((Len(t) + 3) \div 4) \div 2)
         IN decodeBase64(SubSeq(t, 1, half))
            \o decodeBase64(SubSeq(t, half + 1, Len(t)))

\* atob: ASCII whitespace is dropped; when the length is a multiple of
\* four, one or two trailing = are dropped; throws when a character is
\* outside the alphabet or the length is 1 modulo 4.
isWhitespace(c) == c \in {9, 10, 12, 13, 32}
unpadded(t) ==
    IF Len(t) % 4 = 0 /\ Len(t) > 0 /\ t[Len(t)] = 61
    THEN IF t[Len(t) - 1] = 61
         THEN SubSeq(t, 1, Len(t) - 2)
         ELSE SubSeq(t, 1, Len(t) - 1)
    ELSE t
atob(data) ==
    LET t == unpadded(SelectSeq(data, LAMBDA c : ~isWhitespace(c)))
    IN IF Len(t) % 4 = 1 \/ \E i \in DOMAIN t : ~isBase64Char(t[i])
       THEN Thrown
       ELSE Returned(decodeBase64(t))

\* new TextEncoder().encode(text): UTF-8 of code units outside surrogates,
\* unit by unit.
RECURSIVE encodeUtf8(_)
encodeUtf8(text) ==
    IF text = <<>> THEN <<>>
    ELSE IF Len(text) = 1
    THEN LET u == text[1]
         IN CASE u < 128 -> <<u>>
              [] u < 2048 -> <<192 + (u \div 64), 128 + (u % 64)>>
              [] OTHER -> <<224 + (u \div 4096), 128 + ((u \div 64) % 64),
                            128 + (u % 64)>>
    ELSE encodeUtf8(SubSeq(text, 1, Len(text) \div 2))
         \o encodeUtf8(SubSeq(text, (Len(text) \div 2) + 1, Len(text)))

\* a ^ b, bit by bit
RECURSIVE xorBits(_, _)
xorBits(a, b) ==
    IF a = 0 THEN b
    ELSE IF b = 0 THEN a
    ELSE (((a % 2) + (b % 2)) % 2) + 2 * xorBits(a \div 2, b \div 2)

\* a ^ b on bytes, from the table of a ^ b on their halves
xorTable == [a \in 0..15 |-> [b \in 0..15 |-> xorBits(a, b)]]
xor(a, b) == 16 * xorTable[a \div 16][b \div 16] + xorTable[a % 16][b % 16]

\* An unsigned 32-bit integer is kept as its four bytes, the highest first.
xor32(p, q) == [i \in 1..4 |-> xor(p[i], q[i])]

\* c >>> 1
shiftRight1(c) ==
    <<c[1] \div 2, (c[1] % 2) * 128 + (c[2] \div 2),
      (c[2] % 2) * 128 + (c[3] \div 2), (c[3] % 2) * 128 + (c[4] \div 2)>>

\* c = c & 1 ? 0xedb88320 ^ (c >>> 1) : c >>> 1, k times
RECURSIVE crcRounds(_, _)
crcRounds(c, k) ==
    IF k = 0 THEN c
    ELSE crcRounds(IF c[4] % 2 = 1
                   THEN xor32(<<237, 184, 131, 32>>, shiftRight1(c))
                   ELSE shiftRight1(c),
                   k - 1)

crcTable == [n \in 0..255 |-> crcRounds(<<0, 0, 0, n>>, 8)]

\* crc = crcTable[(crc ^ data[i]) & 0xff] ^ (crc >>> 8), for the bytes
\* data[from] to data[to] in turn
RECURSIVE crcOver(_, _, _, _)
crcOver(data, from, to, crc) ==
    IF from > to THEN crc
    ELSE IF from = to
    THEN xor32(crcTable[xor(crc[4], data[from])], <<0, crc[1], crc[2], crc[3]>>)
    ELSE LET middle == (from + to) \div 2
             half == crcOver(data, from, middle, crc)
         IN IF Len(half) = 4 THEN crcOver(data, middle + 1, to, half) ELSE half

\* (crc ^ 0xffffffff) >>> 0
calculateCRC32(data) ==
    xor32(crcOver(data, 1, Len(data), <<255, 255, 255, 255>>),
          <<255, 255, 255, 255>>)

\* (n >> 24) & 0xff, (n >> 16) & 0xff, (n >> 8) & 0xff, n & 0xff
bigEndian(n) ==
    <<(n \div 16777216) % 256, (n \div 65536) % 256, (n \div 256) % 256,
      n % 256>>

\* length, type and data of a chunk followed by the CRC of type and data
chunkOf(type, data) ==
    bigEndian(Len(data)) \o type \o data \o calculateCRC32(type \o data)

createTextChunk(keyword, text) ==
    chunkOf(tEXt, encodeUtf8(keyword) \o <<0>> \o encodeUtf8(text))

\* The code units of the strings of the cards.  The strings written U+00E9
\* and U+4E2D stand for the one-character strings of these code points.
unitsOf(s) ==
    CASE s = "" -> <<>>
      [] s = "spec" -> <<115, 112, 101, 99>>
      [] s = "spec_version" -> <<115, 112, 101, 99, 95, 118, 101, 114, 115, 105, 111, 110>>
      [] s = "data" -> <<100, 97, 116, 97>>
      [] s = "name" -> <<110, 97, 109, 101>>
      [] s = "description" -> <<100, 101, 115, 99, 114, 105, 112, 116, 105, 111, 110>>
      [] s = "personality" -> <<112, 101, 114, 115, 111, 110, 97, 108, 105, 116, 121>>
      [] s = "scenario" -> <<115, 99, 101, 110, 97, 114, 105, 111>>
      [] s = "first_mes" -> <<102, 105, 114, 115, 116, 95, 109, 101, 115>>
      [] s = "mes_example" -> <<109, 101, 115, 95, 101, 120, 97, 109, 112, 108, 101>>
      [] s = "chara_card_v2" -> <<99, 104, 97, 114, 97, 95, 99, 97, 114, 100, 95, 118, 50>>
      [] s = "2.0" -> <<50, 46, 48>>
      [] s = "N" -> <<78>>
      [] s = "O" -> <<79>>
      [] s = "p" -> <<112>>
      [] s = "d" -> <<100>>
      [] s = "U+00E9" -> <<233>>
      [] s = "U+4E2D" -> <<20013>>

\* The order in which JSON.stringify writes the members of a card.
KeyOrder ==
    <<"spec", "spec_version", "data", "name", "description", "personality",
      "scenario", "first_mes", "mes_example">>

\* The sequences joined with the separator between them.
RECURSIVE joined(_, _)
joined(parts, separator) ==
    IF parts = <<>> THEN <<>>
    ELSE IF Len(parts) = 1 THEN parts[1]
    ELSE parts[1] \o separator \o joined(Tail(parts), separator)

\* The text JSON.stringify(value) writes, as code units: "..." for a string
\* (none of the strings here needs an escape), [..,..] for an array and
\* {"key":value,...} for an object.
RECURSIVE jsonUnits(_)
jsonUnits(x) ==
    CASE x.t = "string" -> <<34>> \o unitsOf(x.v) \o <<34>>
      [] x.t = "null" -> <<110, 117, 108, 108>>
      [] x.t = "array" ->
            <<91>> \o joined([i \in DOMAIN x.v |-> jsonUnits(x.v[i])], <<44>>)
            \o <<93>>
      [] x.t = "object" ->
            LET keys == SelectSeq(KeyOrder, LAMBDA k : k \in DOMAIN x.v)
            IN <<123>>
               \o joined([i \in DOMAIN keys |->
                            <<34>> \o unitsOf(keys[i]) \o <<34, 58>>
                            \o jsonUnits(x.v[keys[i]])], <<44>>)
               \o <<125>>

codeUnits(text) == jsonUnits(text.json)

\* Valid character data for the embedding: the name is ASCII, Latin-1 or
\* outside Latin-1, the description empty or set.
PngNames == {"N", "O", "U+00E9", "U+4E2D"}
PngDatas ==
    {Members({<<"name", Str(name)>>, <<"description", Str(description)>>,
              <<"personality", Str("p")>>, <<"scenario", Str("")>>,
              <<"first_mes", Str("")>>, <<"mes_example", Str("")>>}) :
        name \in PngNames, description \in {"", "d"}}

\* The JSON texts that are read back: the compact text of each card.
CardTexts ==
    {exportCharacterToJson(createCharacterFromData(d), FALSE) : d \in PngDatas}

\* The JSON text with the given code units; JSON.parse throws a SyntaxError
\* on units that are no JSON text.
textOf(units) ==
    IF \E text \in CardTexts : codeUnits(text) = units
    THEN Returned(CHOOSE text \in CardTexts : codeUnits(text) = units)
    ELSE Thrown

\* The walk of removeExistingCharaChunk from a chunk boundary: every chunk
\* up to and including IEND, but for the tEXt chunks with keyword chara.
RECURSIVE keptAll(_, _)
keptAll(bytes, offset) ==
    IF offset >= Len(bytes) THEN <<>>
    ELSE LET dataLength == readLength(bytes, offset)
             type == readType(bytes, offset + 4)
             chunkEnd == offset + 12 + dataLength
         IN slice(bytes, offset, chunkEnd)
            \o (IF type = IEND THEN <<>> ELSE keptAll(bytes, chunkEnd))
RECURSIVE kept(_, _)
kept(bytes, offset) ==
    IF offset >= Len(bytes) THEN <<>>
    ELSE LET dataLength == readLength(bytes, offset)
             type == readType(bytes, offset + 4)
             chunkEnd == offset + 12 + dataLength
             chunk == slice(bytes, offset, chunkEnd)
             chunkData == slice(bytes, offset + 8, offset + 8 + dataLength)
         IN (IF type = tEXt /\ keywordOf(chunkData) = CHARA_KEYWORD
             THEN <<>> ELSE chunk)
            \o (IF type = IEND THEN <<>> ELSE kept(bytes, chunkEnd))

removeExistingCharaChunk(bytes) == slice(bytes, 0, 8) \o kept(bytes, 8)

\* The offset of the IEND chunk, or the length of the array without one.
insertPositionAfterEnd(bytes, offset) == Len(bytes)
RECURSIVE insertPositionFrom(_, _)
insertPositionFrom(bytes, offset) ==
    IF offset >= Len(bytes) THEN Len(bytes)
    ELSE IF readType(bytes, offset + 4) = IEND THEN offset
    ELSE insertPositionFrom(bytes, offset + 12 + readLength(bytes, offset))

\* The first search for IEND (lines 133-154) only sets a value the second
\* one overwrites.
embedCharacterIntoPng(base64PngData, character) ==
    LET decoded == atob(base64PngData)
    IN IF decoded.threw \/ ~hasSignature(decoded.value) THEN Thrown
       ELSE LET bytes == decoded.value
                jsonString == codeUnits(stringify(exportToV2Card(character), FALSE))
                base64Json == btoa(jsonString)
            IN IF base64Json.threw THEN Thrown
               ELSE LET textChunk == createTextChunk(CHARA_KEYWORD, base64Json.value)
                        cleanedBytes == removeExistingCharaChunk(bytes)
                        insertPosition == insertPositionFrom(cleanedBytes, 8)
                    IN btoa(slice(cleanedBytes, 0, insertPosition)
                            \o textChunk
                            \o slice(cleanedBytes, insertPosition,
                                     Len(cleanedBytes)))

Absent == [present |-> FALSE]
Present(card) == [present |-> TRUE, card |-> card]

\* atob(base64Text), then parseCharacterCard(jsonString); whatever is
\* thrown is caught and null returned.
cardOf(textBytes) ==
    LET jsonString == atob(textBytes)
    IN IF jsonString.threw THEN Absent
       ELSE LET text == textOf(jsonString.value)
            IN IF text.threw THEN Absent
               ELSE LET parsed == parseCharacterCard(text.value)
                    IN IF parsed.ok THEN Present(parsed.card) ELSE Absent

\* One turn of the while loop of extractCharacterFromPng at the cursor:
\* the call returns (done) or the cursor moves on.
chunkStep(bytes, offset) ==
    LET dataLength == readLength(bytes, offset)
        type == readType(bytes, offset + 4)
        chunkData == slice(bytes, offset + 8, offset + 8 + dataLength)
        nullIndex == nullIndexFrom(chunkData, 0)
    IN IF type = tEXt /\ slice(chunkData, 0, nullIndex) = CHARA_KEYWORD
       THEN [done |-> TRUE,
             result |-> cardOf(slice(chunkData, nullIndex + 1, Len(chunkData)))]
       ELSE IF type = IEND
       THEN [done |-> TRUE, result |-> Absent]
       ELSE [done |-> FALSE, offset |-> offset + 8 + dataLength + 4]

\* The loop from the cursor on, for bytes on which it ends.
RECURSIVE walkFrom(_, _)
walkFrom(bytes, offset) ==
    IF offset >= Len(bytes) THEN Absent
    ELSE LET step == chunkStep(bytes, offset)
         IN IF step.done THEN step.result ELSE walkFrom(bytes, step.offset)

extractCharacterFromPng(base64Data) ==
    LET decoded == atob(base64Data)
    IN IF decoded.threw \/ ~hasSignature(decoded.value) THEN Absent
       ELSE walkFrom(decoded.value, 8)

\* Valid images: a header chunk, image data and the end chunk, with a tEXt
\* chunk of another keyword, with a card already embedded, with two chara
\* chunks (the first without base64 text), with a chara chunk that has no
\* separator.
IHDR == chunkOf(<<73, 72, 68, 82>>, <<1>>)
IDAT == chunkOf(<<73, 68, 65, 84>>, <<7, 0>>)
EndChunk == chunkOf(IEND, <<>>)
OtherText == createTextChunk(<<99, 104, 97, 114, 109>>, <<120>>)
OldData ==
    Members({<<"name", Str("O")>>, <<"description", Str("d")>>,
             <<"personality", Str("p")>>, <<"scenario", Str("")>>,
             <<"first_mes", Str("")>>, <<"mes_example", Str("")>>})
OldChara ==
    createTextChunk(CHARA_KEYWORD,
        btoa(codeUnits(exportCharacterToJson(
                           createCharacterFromData(OldData), FALSE))).value)
BrokenChara == createTextChunk(CHARA_KEYWORD, <<33>>)
BareChara == chunkOf(tEXt, CHARA_KEYWORD)
BasePngs ==
    {PNG_SIGNATURE \o IHDR \o IDAT \o EndChunk,
     PNG_SIGNATURE \o IHDR \o OtherText \o IDAT \o EndChunk,
     PNG_SIGNATURE \o IHDR \o OldChara \o IDAT \o OtherText \o EndChunk,
     PNG_SIGNATURE \o IHDR \o BrokenChara \o OldChara \o IDAT \o EndChunk,
     PNG_SIGNATURE \o IHDR \o IDAT \o BareChara \o EndChunk}

PngIdle == gPng = NoResult /\ gOut = NoResult

PngInit ==
    /\ gPng \in {btoa(bytes).value : bytes \in BasePngs}
    /\ gOut = NoResult

\* embedCharacterIntoPng(png, createCharacterFromData(data)); the image is
\* replaced by the one returned.
CallEmbedCharacterIntoPng ==
    /\ \E data \in PngDatas :
          LET result == embedCharacterIntoPng(gPng, createCharacterFromData(data))
          IN /\ gOut' = [kind |-> "embedCharacterIntoPng", data |-> data,
                         before |-> gPng, result |-> result]
             /\ gPng' = IF result.threw THEN gPng ELSE result.value
    /\ UNCHANGED <<truncVars, chatVars, wiVars, scanVars, promptVars, cardVars,
                   walkVars, raceVars, bookVars>>

CallExtractCharacterFromPng ==
    /\ gOut' = [kind |-> "extractCharacterFromPng",
                result |-> extractCharacterFromPng(gPng)]
    /\ UNCHANGED <<gPng, truncVars, chatVars, wiVars, scanVars, promptVars,
                   cardVars, walkVars, raceVars, bookVars>>

PngNext ==
    \/ CallEmbedCharacterIntoPng
    \/ CallExtractCharacterFromPng

(***************************************************************************)
(* The chunk walk of extractCharacterFromPng, one turn of its loop at a    *)
(* time, on arbitrary bytes.                                               *)
(***************************************************************************)

\* Bound of the walk's inputs: four-byte words after the signature.
MaxWalkWords == 3

\* Lengths 0 and 4, a length beyond every input, lengths with the high bit
\* set (-8, -12, -16), the types tEXt, IEND and IDAT.
WalkWords ==
    {<<0, 0, 0, 0>>, <<0, 0, 0, 4>>, <<127, 0, 0, 0>>,
     <<255, 255, 255, 248>>, <<255, 255, 255, 244>>, <<255, 255, 255, 240>>,
     tEXt, IEND, <<73, 68, 65, 84>>}
Signatures ==
    {PNG_SIGNATURE, <<0, 80, 78, 71, 13, 10, 26, 10>>, <<137, 80, 78, 71>>}

RECURSIVE flatten(_)
flatten(words) ==
    IF words = <<>> THEN <<>> ELSE words[1] \o flatten(Tail(words))

\* The bytes cut short at the end.
cutShort(bytes, n) == SubSeq(bytes, 1, Len(bytes) - n)

\* Signature and words (a last chunk may lack its type, data or CRC);
\* images without and with a card, whole, cut short within the end chunk
\* or before it, or followed by more bytes; a text that is not base64.
WalkBytes ==
    UNION {{signature \o flatten(words) : words \in [1..n -> WalkWords]} :
              n \in 0..MaxWalkWords, signature \in Signatures}
WalkInputs ==
    {btoa(bytes).value : bytes \in WalkBytes}
    \cup {btoa(cutShort(bytes, n)).value : bytes \in BasePngs, n \in {0, 2, 13}}
    \cup {btoa(bytes \o word).value : bytes \in BasePngs, word \in WalkWords}
    \cup {<<33>>}

WalkIdle ==
    kIn = NoResult /\ kBytes = NoResult /\ kOffset = 0 /\ kOut = NoResult

WalkInit ==
    /\ kIn \in WalkInputs
    /\ kBytes = NoResult /\ kOffset = 0 /\ kOut = NoResult

\* Lines 22-38: decode, check the signature, set the cursor after it.
WalkEnter ==
    /\ kBytes = NoResult /\ kOut = NoResult
    /\ LET decoded == atob(kIn)
       IN IF decoded.threw \/ ~hasSignature(decoded.value)
          THEN /\ kOut' = [kind |-> "returned", result |-> Absent]
               /\ UNCHANGED <<kBytes, kOffset>>
          ELSE /\ kBytes' = decoded.value
               /\ kOffset' = 8
               /\ UNCHANGED kOut
    /\ UNCHANGED <<kIn, truncVars, chatVars, wiVars, scanVars, promptVars,
                   cardVars, pngVars, raceVars, bookVars>>

\* Lines 39-91: one turn of the loop.
WalkTurn ==
    /\ kBytes # NoResult /\ kOut = NoResult
    /\ kOffset < Len(kBytes)
    /\ LET step == chunkStep(kBytes, kOffset)
       IN IF step.done
          THEN /\ kOut' = [kind |-> "returned", result |-> step.result]
               /\ UNCHANGED kOffset
          ELSE /\ kOffset' = step.offset
               /\ UNCHANGED kOut
    /\ UNCHANGED <<kIn, kBytes, truncVars, chatVars, wiVars, scanVars,
                   promptVars, cardVars, pngVars, raceVars, bookVars>>

\* Line 93: the loop is left at the end of the bytes.
WalkLeave ==
    /\ kBytes # NoResult /\ kOut = NoResult
    /\ kOffset >= Len(kBytes)
    /\ kOut' = [kind |-> "returned", result |-> Absent]
    /\ UNCHANGED <<kIn, kBytes, kOffset, truncVars, chatVars, wiVars, scanVars,
                   promptVars, cardVars, pngVars, raceVars, bookVars>>

WalkNext ==
    \/ WalkEnter
    \/ WalkTurn
    \/ WalkLeave

(***************************************************************************)
(* Two addMessage calls on one session.  A call runs in two steps, each    *)
(* one turn of the event loop: it loads the session and pushes its message *)
(* onto its own copy (up to the await of saveChatSession), then the row is *)
(* written.  Nothing orders the steps of the two calls.                    *)
(***************************************************************************)

Calls == {1, 2}
RaceContents == {"a", "b"}
RaceArgs == [role : Roles, content : RaceContents]

RaceIdle == rPc = NoResult /\ rSession = NoResult

\* The session both calls name: the one createChatSession made.
RaceSessionId == CHOOSE id \in DOMAIN store : TRUE

\* A session without or with a greeting; both calls are made, neither has
\* run.
RaceInit ==
    /\ \E firstMessage \in Greetings \cup {""} :
           LET r == createChatSession([id \in {} |-> NullSession], 0, firstMessage)
           IN store = r.rows /\ nextId = r.nid
    /\ \E args \in [Calls -> RaceArgs] :
           rPc = [kind |-> "addMessage", args |-> args,
                  at |-> [c \in Calls |-> "called"],
                  before |-> store[RaceSessionId].messages,
                  log |-> <<>>]
    /\ rSession = [c \in Calls |-> NullSession]

\* addMessage lines 412-425: getChatSession, the new message, push.
Load(c) ==
    /\ rPc.at[c] = "called"
    /\ LET session == getChatSession(store, RaceSessionId)
           message == [id |-> nextId + 1, role |-> rPc.args[c].role,
                       content |-> rPc.args[c].content]
       IN IF session = NullSession
          THEN /\ rPc' = [rPc EXCEPT !.at[c] = "threw",
                                     !.log = Append(@, <<c, "load">>)]
               /\ UNCHANGED <<rSession, nextId>>
          ELSE /\ rSession' = [rSession EXCEPT ![c] =
                                  [session EXCEPT !.messages = push(@, message)]]
               /\ nextId' = nextId + 1
               /\ rPc' = [rPc EXCEPT !.at[c] = "loaded",
                                     !.log = Append(@, <<c, "load">>)]
    /\ UNCHANGED <<store, truncVars, wiVars, scanVars, promptVars, cardVars,
                   pngVars, walkVars, bookVars>>

\* addMessage lines 427-428: saveChatSession replaces the row, the call
\* returns.
Save(c) ==
    /\ rPc.at[c] = "loaded"
    /\ store' = saveChatSession(store, rSession[c])
    /\ rPc' = [rPc EXCEPT !.at[c] = "returned",
                          !.log = Append(@, <<c, "save">>)]
    /\ UNCHANGED <<nextId, rSession, truncVars, wiVars, scanVars, promptVars,
                   cardVars, pngVars, walkVars, bookVars>>

RaceLoad == \E c \in Calls : Load(c)
RaceSave == \E c \in Calls : Save(c)

RaceNext ==
    \/ RaceLoad
    \/ RaceSave

(***************************************************************************)
(* World-info manager: reordering the entries of a book.                   *)
(***************************************************************************)

\* Bounds of the book and of the id list handed to reorderEntries.
MaxBookEntries == 3
MaxListedIds == 3

BookIdle == bBook = NoResult /\ bOut = NoResult

\* The stored book, and an id no book has.
BookId == "book"
UnknownBookId == "other"

\* Lines 168-175: the listed ids in turn; an id found in the map gets the
\* position i of the id in the list as its order, is pushed and is deleted
\* from the map.  The map is the sequence of its values in insertion order.
RECURSIVE listedLoop(_, _, _, _)
listedLoop(entryMap, entryIds, i, reorderedEntries) ==
    IF i >= Len(entryIds)
    THEN [entryMap |-> entryMap, reorderedEntries |-> reorderedEntries]
    ELSE LET found == SelectSeq(entryMap, LAMBDA e : e.id = entryIds[i + 1])
         IN IF found = <<>>
            THEN listedLoop(entryMap, entryIds, i + 1, reorderedEntries)
            ELSE listedLoop(SelectSeq(entryMap, LAMBDA e : e.id # entryIds[i + 1]),
                            entryIds, i + 1,
                            Append(reorderedEntries,
                                   [found[1] EXCEPT !.order = i]))

\* Lines 178-181: the entries left in the map get the length of the list
\* so far as their order and are pushed.
RECURSIVE remainingLoop(_, _)
remainingLoop(values, reorderedEntries) ==
    IF values = <<>> THEN reorderedEntries
    ELSE remainingLoop(Tail(values),
                       Append(reorderedEntries,
                              [values[1] EXCEPT !.order = Len(reorderedEntries)]))

reorderEntries(book, entryIds) ==
    LET listed == listedLoop(book.entries, entryIds, 0, <<>>)
    IN [book EXCEPT
           !.entries = remainingLoop(listed.entryMap, listed.reorderedEntries)]

\* Entry ids of the book, and an id no entry has.
EntryIds == 1..MaxBookEntries
UnknownEntryId == 0
IdLists ==
    UNION {[1..n -> EntryIds \cup {UnknownEntryId}] : n \in 0..MaxListedIds}

\* A book of up to MaxBookEntries entries with distinct ids, in id order,
\* each with its index as order.
BookInit ==
    /\ \E n \in 0..MaxBookEntries :
           bBook = [id |-> BookId,
                    entries |-> [k \in 1..n |-> [id |-> k, order |-> k - 1]]]
    /\ bOut = NoResult

\* reorderEntries(bookId, entryIds): throws for an unknown book, else
\* saves and returns the reordered book.
CallReorderEntries ==
    /\ \E bookId \in {BookId, UnknownBookId}, entryIds \in IdLists :
          IF bookId # bBook.id
          THEN /\ bOut' = [kind |-> "reorderEntries", threw |-> TRUE]
               /\ UNCHANGED bBook
          ELSE /\ bBook' = reorderEntries(bBook, entryIds)
               /\ bOut' = [kind |-> "reorderEntries", threw |-> FALSE,
                            entryIds |-> entryIds, before |-> bBook.entries]
    /\ UNCHANGED <<truncVars, chatVars, wiVars, scanVars, promptVars, cardVars,
                   pngVars, walkVars, raceVars>>

BookNext ==
    \/ CallReorderEntries



TruncNext ==
    \/ CallTruncateMessages
    \/ CallTruncateMessagesPreserveSystem

InitTrunc == TruncInit /\ ChatIdle /\ WIIdle /\ ScanIdle /\ PromptIdle /\ CardIdle
    /\ PngIdle /\ WalkIdle /\ RaceIdle /\ BookIdle
SpecTrunc == InitTrunc /\ [][TruncNext]_vars

InitChat == ChatInit /\ TruncIdle /\ WIIdle /\ ScanIdle /\ PromptIdle /\ CardIdle
    /\ PngIdle /\ WalkIdle /\ RaceIdle /\ BookIdle
SpecChat == InitChat /\ [][ChatNext]_vars

InitWI == WIInit /\ TruncIdle /\ ChatIdle /\ ScanIdle /\ PromptIdle /\ CardIdle
    /\ PngIdle /\ WalkIdle /\ RaceIdle /\ BookIdle
SpecWI == InitWI /\ [][WINext]_vars

InitPrompt == PromptInit /\ TruncIdle /\ ChatIdle /\ WIIdle /\ ScanIdle /\ CardIdle
    /\ PngIdle /\ WalkIdle /\ RaceIdle /\ BookIdle
SpecPrompt == InitPrompt /\ [][PromptNext]_vars

InitCard == CardInit /\ TruncIdle /\ ChatIdle /\ WIIdle /\ ScanIdle /\ PromptIdle
    /\ PngIdle /\ WalkIdle /\ RaceIdle /\ BookIdle
SpecCard == InitCard /\ [][CardNext]_vars

InitScan == ScanInit /\ TruncIdle /\ ChatIdle /\ WIIdle /\ PromptIdle /\ CardIdle
    /\ PngIdle /\ WalkIdle /\ RaceIdle /\ BookIdle
SpecScan == InitScan /\ [][ScanNext]_vars

InitRace == RaceInit /\ TruncIdle /\ WIIdle /\ ScanIdle /\ PromptIdle /\ CardIdle
    /\ PngIdle /\ WalkIdle /\ BookIdle
SpecRace == InitRace /\ [][RaceNext]_vars

InitBook == BookInit /\ TruncIdle /\ ChatIdle /\ WIIdle /\ ScanIdle /\ PromptIdle
    /\ CardIdle /\ PngIdle /\ WalkIdle /\ RaceIdle
SpecBook == InitBook /\ [][BookNext]_vars

InitPng == PngInit /\ TruncIdle /\ ChatIdle /\ WIIdle /\ ScanIdle /\ PromptIdle
    /\ CardIdle /\ WalkIdle /\ RaceIdle /\ BookIdle
SpecPng == InitPng /\ [][PngNext]_vars

InitWalk == WalkInit /\ TruncIdle /\ ChatIdle /\ WIIdle /\ ScanIdle /\ PromptIdle
    /\ CardIdle /\ PngIdle /\ RaceIdle /\ BookIdle
SpecWalk == InitWalk /\ [][WalkNext]_vars

(***************************************************************************)
(* Properties of the truncation (SpecTrunc).                               *)
(***************************************************************************)

Truncated == tOut.kind = "truncateMessages"
Preserved == tOut.kind = "truncateMessagesPreserveSystem"

\* C1 as stated: for every message list and every maxTokens, the estimated
\* cost of the messages truncateMessages returns (3 plus, per kept message,
\* countTokens(content) + 4) is at most maxTokens.
C1_CostWithinEveryBudget ==
    Truncated => countMessagesTokens(tOut.messages) <= tMax

\* C1 amended: the cost is at most maxTokens whenever maxTokens is at least
\* the base overhead 3; below that no message is kept and the cost of the
\* empty result is the base overhead itself.
C1_CostWithinBudget ==
    Truncated =>
        /\ tMax >= BaseOverhead
               => countMessagesTokens(tOut.messages) <= tMax
        /\ tMax < BaseOverhead
               => /\ tOut.messages = <<>>
                  /\ countMessagesTokens(tOut.messages) = BaseOverhead

\* A truncating call whose kept messages fill the budget exactly.
C1_Witness ==
    /\ Truncated
    /\ tOut.truncated
    /\ Len(tOut.messages) >= 2
    /\ countMessagesTokens(tOut.messages) = tMax

\* C2: the output of truncateMessages is the input without its first
\* removedCount messages (the newest contiguous run, in order),
\* removedCount = input length - output length, truncated iff
\* removedCount > 0, and a non-empty output ends with the last input message.
C2_NewestContiguousRun ==
    Truncated =>
        /\ tOut.removedCount = Len(tIn) - Len(tOut.messages)
        /\ tOut.truncated <=> tOut.removedCount > 0
        /\ tOut.messages = SubSeq(tIn, tOut.removedCount + 1, Len(tIn))
        /\ tOut.messages # <<>>
               => tOut.messages[Len(tOut.messages)] = tIn[Len(tIn)]

C27_KeepsNewestRun ==
    (Preserved /\ systemTokensOf(SelectSeq(tIn, IsSystem)) <= tMax) =>
        LET chatMessages == SelectSeq(tIn, IsChat)
            keptChat == SelectSeq(tOut.messages, IsChat)
        IN keptChat = SubSeq(chatMessages,
                             Len(chatMessages) - Len(keptChat) + 1,
                             Len(chatMessages))

(***************************************************************************)
(* Properties of the chat manager (SpecChat).  A property of one call is   *)
(* stated of its result on every reachable table and every argument.       *)
(***************************************************************************)

Msg(rows, p) == rows[p[1]].messages[p[2]]
Swiped(rows, p) == HasSwipes(Msg(rows, p)) /\ Len(Msg(rows, p).swipes) >= 1
IdsOf(messages) == [i \in DOMAIN messages |-> messages[i].id]

\* C4: in every reachable state every stored message that has swipes
\* satisfies 0 <= swipeIndex < swipes.length.
C4_SwipeIndexInRange ==
    \A p \in Stored(store) :
        HasSwipes(Msg(store, p)) =>
            /\ "swipeIndex" \in DOMAIN Msg(store, p)
            /\ 0 <= Msg(store, p).swipeIndex
            /\ Msg(store, p).swipeIndex < Len(Msg(store, p).swipes)

\* A forked session holds a swiped message whose first swipe was selected
\* again.
C4_Witness ==
    /\ Cardinality(DOMAIN store) = 2
    /\ \E p \in Stored(store) :
          /\ Swiped(store, p)
          /\ Msg(store, p).swipeIndex = 0
          /\ Len(Msg(store, p).swipes) = MaxSwipes

\* max(0, min(requested, n - 1)), case by case.
Clamped(requested, n) ==
    IF requested < 0 THEN 0
    ELSE IF requested > n - 1 THEN n - 1 ELSE requested

\* C5: on a message with N >= 1 swipes, for every requested index,
\* setSwipeIndex throws nothing, sets swipeIndex to max(0, min(requested,
\* N - 1)) and content to swipes[swipeIndex], leaves the swipes list and
\* every other message as they were.
C5_SetSwipeIndexClamps ==
    \A p \in Stored(store) : \A index \in Indexes :
        Swiped(store, p) =>
            LET m == Msg(store, p)
                r == setSwipeIndex(store, nextId, p[1], m.id, index)
                k == Clamped(index, Len(m.swipes))
            IN /\ r.error = ErrNone
               /\ DOMAIN r.rows = DOMAIN store
               /\ Stored(r.rows) = Stored(store)
               /\ Msg(r.rows, p).swipeIndex = k
               /\ Msg(r.rows, p).content = m.swipes[k + 1]
               /\ Msg(r.rows, p).swipes = m.swipes
               /\ \A q \in Stored(store) \ {p} : Msg(r.rows, q) = Msg(store, q)

\* A message with swipes shows its first swipe: an index below the last
\* was selected.
C5_Witness ==
    \E p \in Stored(store) :
        /\ Swiped(store, p)
        /\ Len(Msg(store, p).swipes) >= 2
        /\ Msg(store, p).swipeIndex = 0
        /\ Msg(store, p).content = Msg(store, p).swipes[1]

\* C6: forkChat from the message at position i (counted from 0) creates a
\* session with a new id holding exactly i + 1 messages, equal in role and
\* content to the source's messages 0..i in order, none with an id of a
\* source message.
C6_ForkCopiesPrefix ==
    \A p \in Stored(store) :
        LET source == store[p[1]].messages
            r == forkChat(store, nextId, p[1], source[p[2]].id)
        IN /\ r.error = ErrNone
           /\ r.ret \notin DOMAIN store
           /\ DOMAIN r.rows = DOMAIN store \cup {r.ret}
           /\ LET copy == r.rows[r.ret].messages
              IN /\ Len(copy) = p[2]
                 /\ \A j \in 1..p[2] :
                       /\ copy[j].role = source[j].role
                       /\ copy[j].content = source[j].content
                 /\ \A j \in DOMAIN copy : \A k \in DOMAIN source :
                       copy[j].id # source[k].id

\* Two sessions: the later one holds copies, under other ids, of the first
\* two messages of the earlier one.
C6_Witness ==
    \E s, t \in DOMAIN store :
        /\ s < t
        /\ Len(store[t].messages) = 2
        /\ Len(store[s].messages) >= 2
        /\ \A j \in 1..2 :
              /\ store[t].messages[j].role = store[s].messages[j].role
              /\ store[t].messages[j].content = store[s].messages[j].content
              /\ store[t].messages[j].id # store[s].messages[j].id

\* The four calls that change a message of one session.
Changed(rows, nid, op, sid, mid, content, index) ==
    CASE op = "updateMessage" -> updateMessage(rows, nid, sid, mid, content)
      [] op = "addSwipe"      -> addSwipe(rows, nid, sid, mid, content)
      [] op = "setSwipeIndex" -> setSwipeIndex(rows, nid, sid, mid, index)
      [] op = "deleteMessage" -> deleteMessage(rows, nid, sid, mid)
ChangeOps == {"updateMessage", "addSwipe", "setSwipeIndex", "deleteMessage"}

\* C7: forkChat leaves every stored session as it was, and updateMessage,
\* addSwipe, setSwipeIndex and deleteMessage on one session leave every
\* other session (the source or the fork of it) as it was.
C7_SessionsIndependent ==
    /\ \A sid \in SessionIds : \A mid \in MessageIds(sid) :
          \A s \in DOMAIN store :
              forkChat(store, nextId, sid, mid).rows[s] = store[s]
    /\ \A op \in ChangeOps : \A sid \in SessionIds :
          \A mid \in MessageIds(sid) :
              LET r == Changed(store, nextId, op, sid, mid, "e", 0)
              IN /\ DOMAIN r.rows = DOMAIN store
                 /\ \A s \in DOMAIN store \ {sid} : r.rows[s] = store[s]

\* A fork of a swiped message and its source, after a later call changed
\* one of the two: they hold the same swipes and differ in what they show.
C7_Witness ==
    \E s, t \in DOMAIN store :
        /\ s < t
        /\ store[s].messages # <<>> /\ store[t].messages # <<>>
        /\ HasSwipes(store[s].messages[1])
        /\ HasSwipes(store[t].messages[1])
        /\ store[s].messages[1].swipes = store[t].messages[1].swipes
        /\ store[s].messages[1].content # store[t].messages[1].content

\* The calls on a session, by name.
Targeted(rows, nid, op, sid, mid, content, index) ==
    CASE op = "forkChat"   -> forkChat(rows, nid, sid, mid)
      [] op = "addMessage" -> addMessage(rows, nid, sid, "user", content)
      [] op = "nextSwipe"  -> nextSwipe(rows, nid, sid, mid)
      [] op = "prevSwipe"  -> prevSwipe(rows, nid, sid, mid)
      [] OTHER -> Changed(rows, nid, op, sid, mid, content, index)
NotFoundOps == ChangeOps \cup {"forkChat"}
SessionOps == NotFoundOps \cup {"addMessage", "nextSwipe", "prevSwipe"}

\* C8: a call that fails leaves the table as it was and creates no
\* session; updateMessage, deleteMessage, addSwipe, setSwipeIndex and
\* forkChat fail with a not-found error when the session id or the message
\* id is absent, and setSwipeIndex on a message without swipes fails.
C8_FailuresChangeNothing ==
    \A op \in SessionOps : \A sid \in SessionIds :
        \A mid \in MessageIds(sid) :
            LET r == Targeted(store, nextId, op, sid, mid, "e", 0)
                plain == \E p \in Stored(store) :
                            /\ p[1] = sid
                            /\ Msg(store, p).id = mid
                            /\ ~HasSwipes(Msg(store, p))
            IN /\ r.error # ErrNone => r.rows = store /\ r.nid = nextId
               /\ op \in NotFoundOps /\ sid \notin DOMAIN store
                      => r.error = ErrSession
               /\ op \in NotFoundOps /\ sid \in DOMAIN store
                      /\ mid \notin IdsIn(store, sid)
                      => r.error = ErrMessage
               /\ op = "setSwipeIndex" /\ plain => r.error = ErrNoSwipes

\* A table with two sessions where a message id of one is absent from the
\* other, and a message without swipes.
C8_Witness ==
    /\ \E sid \in DOMAIN store : ForeignIds(store, sid) # {}
    /\ \E p \in Stored(store) :
          /\ ~HasSwipes(Msg(store, p))
          /\ setSwipeIndex(store, nextId, p[1], Msg(store, p).id, 0).error
                 = ErrNoSwipes
          /\ deleteMessage(store, nextId, p[1], AbsentId).error = ErrMessage

\* C9: the messages of a session are in the order they were appended (ids
\* are handed out in that order): addMessage adds at the end,
\* updateMessage and the swipe calls keep every message at its position,
\* deleteMessage removes the message with the given id and keeps the order
\* of the others.
C9_AppendOrder ==
    /\ \A s \in DOMAIN store : \A i, j \in DOMAIN store[s].messages :
          i < j => store[s].messages[i].id < store[s].messages[j].id
    /\ \A s \in DOMAIN store :
          LET ids == IdsOf(store[s].messages)
              added == addMessage(store, nextId, s, "user", "a")
          IN /\ IdsOf(added.rows[s].messages) = Append(ids, added.ret)
             /\ SubSeq(added.rows[s].messages, 1, Len(ids))
                    = store[s].messages
             /\ \A mid \in IdsIn(store, s) :
                   LET NotMid(m) == m.id # mid
                   IN /\ deleteMessage(store, nextId, s, mid).rows[s].messages
                             = SelectSeq(store[s].messages, NotMid)
                      /\ \A op \in ChangeOps \ {"deleteMessage"} :
                            IdsOf(Changed(store, nextId, op, s, mid, "e", 0)
                                      .rows[s].messages) = ids
                      /\ IdsOf(nextSwipe(store, nextId, s, mid)
                                   .rows[s].messages) = ids
                      /\ IdsOf(prevSwipe(store, nextId, s, mid)
                                   .rows[s].messages) = ids

\* A session that lost a message between two that are still stored.
C9_Witness ==
    \E s \in DOMAIN store :
        /\ Len(store[s].messages) = 2
        /\ store[s].messages[2].id > store[s].messages[1].id + 1

(***************************************************************************)
(* Properties of the world-info matcher (SpecWI).                          *)
(***************************************************************************)

Matched == wOut.kind = "matchesEntry"

AnyKeyMatches(keys) ==
    \E i \in DOMAIN keys : matchesKeyword(wText, keys[i], wEntry)

\* C10: matchesEntry returns exactly enabled AND (constant OR (some primary
\* key matches AND (not selective OR secondaryKeys absent or empty OR some
\* secondary key matches))); a disabled entry never matches, even when
\* constant, and an enabled constant entry matches every text.
C10_MatchesEntryFormula ==
    Matched =>
        /\ wOut.value =
              (/\ wEntry.enabled
               /\ \/ wEntry.constant
                  \/ /\ AnyKeyMatches(wEntry.keys)
                     /\ \/ ~wEntry.selective
                        \/ ~HasSecondary(wEntry)
                        \/ wEntry.secondaryKeys = <<>>
                        \/ AnyKeyMatches(wEntry.secondaryKeys))
        /\ ~wEntry.enabled => wOut.value = FALSE
        /\ wEntry.enabled /\ wEntry.constant => wOut.value = TRUE

\* A selective entry whose primary key matches is refused because no
\* secondary key does.
C10_Witness ==
    /\ Matched
    /\ wEntry.enabled /\ ~wEntry.constant /\ wEntry.selective
    /\ AnyKeyMatches(wEntry.keys)
    /\ HasSecondary(wEntry) /\ wEntry.secondaryKeys # <<>>
    /\ wOut.value = FALSE

\* The characters a and b are the same, compared with or without case.
SameChar(a, b, caseSensitive) ==
    a = b \/ (~caseSensitive /\ LowerOf(a) = LowerOf(b))

\* The text holds the key as a literal substring.
HoldsLiteral(text, key, caseSensitive) ==
    \E i \in 0..(Len(text) - Len(key)) :
        \A j \in 1..Len(key) : SameChar(text[i + j], key[j], caseSensitive)

Uncompilable(entry) ==
    {i \in DOMAIN entry.keys : ~Compiles(entry.keys[i])}

\* C11: with useRegex set, a key that is no compilable pattern matches iff
\* the text holds the raw pattern as a literal substring, compared without
\* case unless caseSensitive is set; the match yields a boolean (nothing is
\* raised), and so does matchesEntry on an enabled, non-constant entry with
\* such a key.
C11_InvalidRegexIsLiteral ==
    /\ wEntry # NoResult /\ wEntry.useRegex =>
          \A i \in Uncompilable(wEntry) :
              /\ matchesKeyword(wText, wEntry.keys[i], wEntry) \in BOOLEAN
              /\ matchesKeyword(wText, wEntry.keys[i], wEntry) =
                    HoldsLiteral(wText, wEntry.keys[i], wEntry.caseSensitive)
    /\ /\ Matched /\ wEntry.enabled /\ ~wEntry.constant /\ wEntry.useRegex
       /\ Len(wEntry.keys) = 1 /\ Uncompilable(wEntry) = {1}
       /\ ~wEntry.selective
       => /\ wOut.value \in BOOLEAN
          /\ wOut.value =
                HoldsLiteral(wText, wEntry.keys[1], wEntry.caseSensitive)

\* The pattern "A(" does not compile and is found in the text "a( A" only
\* because the comparison ignores case.
C11_Witness ==
    /\ Matched /\ wEntry.enabled /\ ~wEntry.constant /\ wEntry.useRegex
    /\ ~wEntry.caseSensitive /\ ~wEntry.selective
    /\ wEntry.keys = << <<"A", "(">> >>
    /\ ~includes(wText, wEntry.keys[1])
    /\ wOut.value = TRUE

(***************************************************************************)
(* Properties of the world-info scan (SpecScan).                           *)
(***************************************************************************)

Scanned == sOut.kind = "scanForMatches"
PriorityOf(e) == IF "priority" \in DOMAIN e THEN e.priority ELSE 0

\* C12: scanForMatches returns exactly the entries that matchesEntry
\* accepts, by descending priority (a missing priority is 0), then by
\* ascending order, and in input order when both are equal.
C12_ScanSortsMatches ==
    Scanned =>
        LET out == sOut.value
        IN /\ \A i \in DOMAIN sEntries :
                  matchesEntry(sOut.text, sEntries[i])
                      <=> \E k \in DOMAIN out : out[k] = sEntries[i]
           /\ \A k \in DOMAIN out : \E i \in DOMAIN sEntries : out[k] = sEntries[i]
           /\ \A k, l \in DOMAIN out :
                  k < l =>
                      /\ out[k].id # out[l].id
                      /\ PriorityOf(out[k]) >= PriorityOf(out[l])
                      /\ PriorityOf(out[k]) = PriorityOf(out[l])
                            => out[k].order <= out[l].order
                      /\ /\ PriorityOf(out[k]) = PriorityOf(out[l])
                         /\ out[k].order = out[l].order
                         => out[k].id < out[l].id

\* Three entries match; the last of the input goes first on its priority
\* although its order is the highest, and the two others, equal in priority
\* and order, keep their input order.
C12_Witness ==
    /\ Scanned
    /\ Len(sOut.value) = 3
    /\ sOut.value[1].id = 3 /\ sOut.value[1].order = 1
    /\ sOut.value[2].id = 1 /\ sOut.value[2].order = 0
    /\ sOut.value[3].id = 2 /\ sOut.value[3].order = 0
    /\ "priority" \notin DOMAIN sOut.value[2]
    /\ "priority" \in DOMAIN sOut.value[3]

DepthScanned == sOut.kind = "scanWithDepth"

\* The last k of the messages, oldest first.
LastOf(messages, k) ==
    SubSeq(messages, Len(messages) - k + 1, Len(messages))

\* C13: scanWithDepth(messages, entries, d) is scanForMatches on the joined
\* contents of the last min(d, n) messages; with d = 0 the scanned text is
\* empty, so only constant entries are returned.
C13_ScansLastDepthOnly ==
    DepthScanned =>
        LET k == Min(sDepth, Len(sMsgs))
        IN /\ sOut.value =
                 scanForMatches(join(contentsOf(LastOf(sMsgs, k)), <<"\n">>),
                                sEntries)
           /\ sDepth = 0 =>
                 \A i \in DOMAIN sOut.value : sOut.value[i].constant

(***************************************************************************)
(* Properties of the prompt builder (SpecPrompt).                          *)
(***************************************************************************)

Built == pOut.kind \in {"buildPrompt", "validatePromptCompleteness"}
Out == pOut.result.messages
History == pCtx.chatHistory
\* The number of messages in front of the history turns.
Front == Len(Out) - Len(History)
\* The message of history turn i.
Turn(i) == Out[Front + i]
Examples ==
    parseExampleMessages(pCtx.character.mes_example, pCtx.character.name)
Instructions == buildSystemMessage(pCtx.character, pCtx)
Description == buildCharacterContext(pCtx.character)

\* C14: buildPrompt emits the system messages first (the instructions and
\* persona, then the character block), then the parsed example turns, then
\* one message per history turn in history order as the last messages,
\* whatever maxContextTokens is.
C14_FixedOrder ==
    Built =>
        /\ Front >= Len(Examples)
        /\ \A i \in DOMAIN History : includes(Turn(i).content, History[i].content)
        /\ LET systems == Front - Len(Examples)
           IN /\ systems \in 0..2
              /\ \A k \in 1..systems : Out[k].role = "system"
              /\ Instructions # <<>> =>
                    systems >= 1 /\ includes(Out[1].content, Instructions)
              /\ Description # <<>> =>
                    /\ systems >= 1
                    /\ includes(Out[systems].content, Description)
              /\ Instructions # <<>> /\ Description # <<>> => systems = 2
              /\ \A k \in DOMAIN Examples :
                    /\ Out[systems + k].role = Examples[k].role
                    /\ includes(Out[systems + k].content, Examples[k].content)

\* Instructions, character block, two example turns and three history
\* turns, in a prompt flagged as over the context size.
C14_Witness ==
    /\ pOut.kind = "buildPrompt"
    /\ Instructions # <<>> /\ Description # <<>>
    /\ Len(Examples) = 2 /\ Len(History) = 3
    /\ History[1].content # History[2].content
    /\ Len(Out) = 7
    /\ pOut.result.truncated

\* C15: every history turn keeps its role in the prompt: user stays user,
\* assistant stays assistant, system stays system.
C15_RoleForRole ==
    Built => \A i \in DOMAIN History : Turn(i).role = History[i].role

InChatNote == HasNote(pCtx) /\ pCtx.authorsNote.position = "in_chat"
HoldsNote(message) == includes(message.content, pCtx.authorsNote.content)

\* C16: with an in_chat author's note of depth d, the turn that sits d
\* turns from the end holds the note text and no other turn does; with d
\* beyond the history no turn holds it.
C16_NoteAtDepth ==
    Built /\ InChatNote =>
        \A i \in DOMAIN History :
            HoldsNote(Turn(i)) <=> Len(History) - i = pCtx.authorsNote.depth

Matching ==
    IF HasWorldInfo(pCtx) THEN matchedEntriesOf(History, pCtx.worldInfo)
    ELSE <<>>
Systems == Front - Len(Examples)

\* C17: a matched world-info entry sits where its position says: a
\* before_char entry in the first system message, a before_example entry
\* before the example turns and outside the first system message, an
\* after_example entry behind them, a depth entry in the history stream at
\* the turn of that depth.
C17_WorldInfoByPosition ==
    Built =>
        \A e \in DOMAIN Matching :
            LET entry == Matching[e]
                at(k) == k \in DOMAIN Out /\ includes(Out[k].content, entry.content)
            IN CASE entry.position = "before_char" ->
                        at(1) /\ Out[1].role = "system"
                 [] entry.position = "before_example" ->
                        \E k \in 2..Systems + 1 : at(k)
                 [] entry.position = "after_example" ->
                        (\E k \in (Systems + Len(Examples))..Len(Out) : at(k))
                        /\ ~at(1)
                 [] entry.position = "depth" ->
                        (\E k \in (Front + 1)..Len(Out) : at(k)) /\ ~at(1)
                 [] OTHER -> TRUE

\* C26: the world-info entries that buildPrompt injects are those the
\* WorldInfoEngine scan selects, in scan order: for every history and
\* every set of books, the injected entry sequence equals
\* scanWithDepth(history, all entries of the books, 10), and the text
\* added to the first system message is their contents in that order.
C26_InjectsScanSelection ==
    (Built /\ HasWorldInfo(pCtx)) =>
        LET selected == scanWithDepth(History, entriesOf(pCtx.worldInfo),
                                      ScanWindow)
        IN /\ Matching = selected
           /\ selected # <<>> =>
                  includes(Out[1].content, join(contentsOf(selected), Paragraph))

\* C18: for a named character and an empty history, buildPrompt returns a
\* message, some message holds the name, and validatePromptCompleteness
\* reports valid with nothing missing.
C18_NameInPrompt ==
    /\ Built /\ History = <<>> =>
          /\ Len(Out) >= 1
          /\ \E k \in DOMAIN Out : includes(Out[k].content, pCtx.character.name)
    /\ pOut.kind = "validatePromptCompleteness" /\ History = <<>> =>
          pOut.validation = [valid |-> TRUE, missing |-> <<>>]

(***************************************************************************)
(* Properties of the character card parser (SpecCard).                     *)
(***************************************************************************)

RoundTripped == cIn.kind = "data" /\ cOut.kind = "parseCharacterCard"
ParsedData == cOut.result.card.v["data"]
IsSet(data, k) == k \in DOMAIN data.v /\ data.v[k] # Undef

\* C19: parsing the exported JSON of a character created from valid data d
\* yields d: the six required fields, every optional field that is set and
\* every key of extensions are equal, no identity field is in the parsed
\* data, and the pretty and the compact text parse to the same card.
C19_RoundTrip ==
    /\ RoundTripped =>
          /\ cOut.result.ok
          /\ \A k \in RequiredFields : ParsedData.v[k] = cIn.data.v[k]
          /\ \A k \in OptionalFields :
                 IsSet(cIn.data, k) => get(ParsedData, k) = cIn.data.v[k]
          /\ IsSet(cIn.data, "extensions") =>
                 \A k \in DOMAIN cIn.data.v["extensions"].v :
                     get(get(ParsedData, "extensions"), k)
                         = cIn.data.v["extensions"].v[k]
          /\ DOMAIN ParsedData.v \cap IdentityFields = {}
    /\ cIn.kind = "data" =>
          LET character == createCharacterFromData(cIn.data)
          IN parseCharacterCard(exportCharacterToJson(character, TRUE))
                 = parseCharacterCard(exportCharacterToJson(character, FALSE))

\* Data with a description, an undefined creator_notes, tags and both
\* extension keys came back from the pretty text.
C19_Witness ==
    /\ RoundTripped
    /\ cOut.text.pretty
    /\ cIn.data.v["description"] = Str("d")
    /\ "creator_notes" \in DOMAIN cIn.data.v /\ ~IsSet(cIn.data, "creator_notes")
    /\ IsSet(cIn.data, "tags") /\ cIn.data.v["tags"].v # <<>>
    /\ IsSet(cIn.data, "extensions")
    /\ get(get(ParsedData, "extensions"), "custom") = Num(7)

\* C20: every card that parseCharacterCard returns has a non-empty name (a
\* text without a name, or with a null or empty one, is rejected in each
\* shape), and every other required field that the text lacks is returned
\* as the empty string.
C20_NameRequired ==
    cOut.kind = "parseCharacterCard" /\ cOut.result.ok =>
        /\ get(ParsedData, "name").t = "string"
        /\ get(ParsedData, "name").v # ""
        /\ \A k \in RequiredFields \ {"name"} :
               LET source ==
                       IF in("data", cOut.text.json)
                       THEN cOut.text.json.v["data"] ELSE cOut.text.json
               IN ~in(k, source) => get(ParsedData, k) = Str("")

\* C24: addSwipe on a plain message with content c turns it into a swiped
\* message with swipes = [c, text]; addSwipe on a message with swipes s
\* yields swipes = s followed by text; in both cases swipeIndex is the last
\* index, content is text, and every swipe stored before is still at its
\* index.  Stated of the call on every stored message of every reachable
\* table.
C24_AddSwipeAppends ==
    \A p \in Stored(store), text \in SwipeContents \cup EditContents :
        LET before == Msg(store, p)
            r == addSwipe(store, nextId, p[1], before.id, text)
            after == Msg(r.rows, p)
        IN /\ r.error = ErrNone
           /\ ~HasSwipes(before) => after.swipes = <<before.content, text>>
           /\ HasSwipes(before) => after.swipes = before.swipes \o <<text>>
           /\ after.swipeIndex = Len(after.swipes) - 1
           /\ after.content = text
           /\ HasSwipes(before) =>
                  \A i \in DOMAIN before.swipes :
                      after.swipes[i] = before.swipes[i]

\* addSwipe has acted on a plain message that had been edited: the edited
\* text is the first swipe, the added text the second and the one shown.
C24_Witness ==
    \E p \in Stored(store) :
        /\ Swiped(store, p)
        /\ Len(Msg(store, p).swipes) = 2
        /\ Msg(store, p).swipes[1] \in EditContents
        /\ Msg(store, p).swipes[2] \in SwipeContents
        /\ Msg(store, p).swipeIndex = 1
        /\ Msg(store, p).content = Msg(store, p).swipes[2]

BothReturned == rPc.kind = "addMessage" /\ \A c \in Calls : rPc.at[c] = "returned"

\* The message a call built, and the messages stored at the end.
MessageOf(c) == rSession[c].messages[Len(rSession[c].messages)]
StoredMessages == store[RaceSessionId].messages

\* One call returned before the other loaded; both loaded before either
\* saved.
OneAfterTheOther == rPc.log[1][1] = rPc.log[2][1]
BothLoadedFirst == rPc.log[1][2] = "load" /\ rPc.log[2][2] = "load"
LastSaver == rPc.log[4][1]

\* C28: the chat log holds no lock.  When two addMessage calls on the same
\* session run one after the other, both messages are stored, in call
\* order; when both load before either saves, the stored session ends with
\* only the message of the call that saved last: the other append is lost.
C28_LostAppend ==
    BothReturned =>
        /\ OneAfterTheOther \/ BothLoadedFirst
        /\ OneAfterTheOther =>
               StoredMessages
                   = rPc.before \o <<MessageOf(rPc.log[1][1]), MessageOf(LastSaver)>>
        /\ BothLoadedFirst =>
               /\ StoredMessages = rPc.before \o <<MessageOf(LastSaver)>>
               /\ \A c \in Calls \ {LastSaver} :
                      \A i \in DOMAIN StoredMessages :
                          StoredMessages[i].id # MessageOf(c).id

\* Both calls loaded the session with its greeting, the first to load saved
\* last, and the other call's message, of other content, is not stored.
C28_Witness ==
    /\ BothReturned
    /\ BothLoadedFirst
    /\ LastSaver = rPc.log[1][1]
    /\ Len(rPc.before) = 1
    /\ Len(StoredMessages) = 2
    /\ \E c \in Calls :
          /\ c # LastSaver
          /\ MessageOf(c).content # MessageOf(LastSaver).content
          /\ \A i \in DOMAIN StoredMessages :
                 StoredMessages[i].content # MessageOf(c).content

(***************************************************************************)
(* Properties of the PNG embedding (SpecPng).                              *)
(***************************************************************************)

Embedded == gOut.kind = "embedCharacterIntoPng"
EmbedReturned == Embedded /\ ~gOut.result.threw

\* The chunks of an image, each with its length, type, data and CRC.
RECURSIVE chunksFrom(_, _)
chunksFrom(bytes, offset) ==
    IF offset >= Len(bytes) THEN <<>>
    ELSE LET chunkEnd == offset + 12 + readLength(bytes, offset)
         IN <<slice(bytes, offset, chunkEnd)>> \o chunksFrom(bytes, chunkEnd)
chunksOf(png) == chunksFrom(atob(png).value, 8)

IsChara(chunk) ==
    /\ readType(chunk, 4) = tEXt
    /\ keywordOf(slice(chunk, 8, Len(chunk) - 4)) = CHARA_KEYWORD
IsOther(chunk) == ~IsChara(chunk)

\* The chunk that carries the card of the character data.
CharaChunkOf(data) ==
    createTextChunk(CHARA_KEYWORD,
        btoa(codeUnits(exportCharacterToJson(createCharacterFromData(data),
                                             FALSE))).value)

\* The extracted card is present and agrees with the data on the six
\* required fields.
Carries(extracted, data) ==
    /\ extracted.present
    /\ \A k \in RequiredFields :
           get(get(extracted.card, "data"), k) = data.v[k]

\* C21: for every valid character data d and every valid base PNG,
\* extractCharacterFromPng(embedCharacterIntoPng(png,
\* createCharacterFromData(d))) is present and its data equals d on name,
\* description, personality, scenario, first_mes and mes_example.
C21_RoundTripThroughPng ==
    Embedded =>
        /\ ~gOut.result.threw
        /\ Carries(extractCharacterFromPng(gOut.result.value), gOut.data)

\* C22: after embedCharacterIntoPng on a valid PNG that holds zero, one or
\* several embedded-character chunks, the output holds exactly one tEXt
\* chunk with keyword chara, that chunk carries the newly embedded card,
\* and extraction returns that card; the image of every state is the
\* output of any number of successive embeddings.
C22_OneCharaChunk ==
    EmbedReturned =>
        LET chunks == chunksOf(gPng)
        IN /\ gPng = gOut.result.value
           /\ Cardinality({i \in DOMAIN chunks : IsChara(chunks[i])}) = 1
           /\ \A i \in DOMAIN chunks :
                  IsChara(chunks[i]) => chunks[i] = CharaChunkOf(gOut.data)
           /\ Carries(extractCharacterFromPng(gPng), gOut.data)

\* An embedding of another card into an image that held two
\* embedded-character chunks, neither of them the new one.
C22_Witness ==
    /\ EmbedReturned
    /\ LET before == chunksOf(gOut.before)
       IN /\ Cardinality({i \in DOMAIN before : IsChara(before[i])}) = 2
          /\ \A i \in DOMAIN before : before[i] # CharaChunkOf(gOut.data)
    /\ Carries(extractCharacterFromPng(gPng), gOut.data)

\* C23: embedCharacterIntoPng changes nothing but the embedded-character
\* chunk: every other chunk of the input (tEXt chunks with other keywords
\* and the end chunk included) is in the output byte for byte and in the
\* same relative order, and the new chunk is immediately before IEND.
C23_OtherChunksKept ==
    EmbedReturned =>
        LET before == chunksOf(gOut.before)
            after == chunksOf(gPng)
        IN /\ SelectSeq(after, IsOther) = SelectSeq(before, IsOther)
           /\ Len(after) >= 2
           /\ IsChara(after[Len(after) - 1])
           /\ readType(after[Len(after)], 4) = IEND

\* An embedding into an image with a tEXt chunk of another keyword and an
\* embedded-character chunk that was not the last before IEND.
C23_Witness ==
    /\ EmbedReturned
    /\ LET before == chunksOf(gOut.before)
       IN /\ OtherText \in {before[i] : i \in DOMAIN before}
          /\ \E i \in DOMAIN before : IsChara(before[i]) /\ i < Len(before) - 1
          /\ Len(chunksOf(gPng)) = Len(before)

(***************************************************************************)
(* Properties of the chunk walk (SpecWalk).                                *)
(***************************************************************************)

\* C25: extractCharacterFromPng is total over arbitrary bytes: on every
\* input (bad signature, no embedded chunk, truncated final chunk, a
\* declared chunk length that exceeds the remaining bytes or has its high
\* bit set, data after IEND) every turn of the chunk walk that does not
\* return moves the cursor forward.
C25_CursorAdvances ==
    [][WalkTurn => (kOut' # NoResult \/ kOffset' > kOffset)]_vars

(***************************************************************************)
(* Properties of the entry reordering (SpecBook).                          *)
(***************************************************************************)

Reordered == bOut.kind = "reorderEntries" /\ ~bOut.threw

\* The ids of the entries, in their order in the array.
IdsOfEntries(entries) == [k \in DOMAIN entries |-> entries[k].id]

\* The listed ids the book has, each at its first place in the list.
RECURSIVE FirstListed(_, _)
FirstListed(entryIds, known) ==
    IF entryIds = <<>> THEN <<>>
    ELSE LET rest == FirstListed(SubSeq(entryIds, 1, Len(entryIds) - 1), known)
             id == entryIds[Len(entryIds)]
         IN IF id \in known /\ id \notin {rest[k] : k \in DOMAIN rest}
            THEN Append(rest, id) ELSE rest

\* C30: after reorderEntries(bookId, entryIds) for any id list (with
\* duplicate, unknown or omitted ids), the entries are a permutation of
\* the previous entries, the listed entries come first in the listed
\* order followed by the unlisted ones, and the entry at index k has
\* order = k, so all order values are distinct.
C30_ReorderKeepsEntries ==
    Reordered =>
        LET before == IdsOfEntries(bOut.before)
            after == IdsOfEntries(bBook.entries)
            known == {before[k] : k \in DOMAIN before}
            listed == FirstListed(bOut.entryIds, known)
            isUnlisted(id) == id \notin {listed[k] : k \in DOMAIN listed}
        IN /\ Len(after) = Len(before)
           /\ {after[k] : k \in DOMAIN after} = known
           /\ after = listed \o SelectSeq(before, isUnlisted)
           /\ \A k \in DOMAIN bBook.entries : bBook.entries[k].order = k - 1

====
